---- MODULE Spec2Model ----
(***************************************************************************)
(* Voice-call assistant backend (call_agent_backend).                      *)
(*                                                                         *)
(* The module models, from the Python sources,                             *)
(*   - the call record store and the lead status ladder                    *)
(*     (routers/calls_api.py, routers/webhook_api.py, mongo_client.py),    *)
(*   - the call tracking of routers/websocket_api.py                       *)
(*     (start_call_tracking, log_call_message, end_call_tracking),         *)
(*   - the WebSocket endpoint, its two worker tasks and the module globals *)
(*     they share (routers/websocket_api.py),                              *)
(*   - the interest classifier of qa_engine.py.                            *)
(*                                                                         *)
(* Each part has its own next-state relation and specification over the    *)
(* one set of variables; the variables a part does not touch keep their    *)
(* initial value in that part's specification.                             *)
(***************************************************************************)
EXTENDS Integers, Sequences, FiniteSets, TLC

VARIABLES
    \* ---- document store (mongo_client) ----
    dbConnected,        \* mongo_client.is_connected(): fixed at start-up
    calls,              \* the calls collection, in insertion order (_id = index)
    leads,              \* the leads collection: lead id -> [phone, status]
    clock,              \* datetime.now(), in seconds
    \* ---- call tracking (websocket_api globals) ----
    current_call_data,  \* the global call tracking dict
    \* ---- history of the store, for the properties ----
    lastLog,            \* session id -> the arguments of the last log_call carrying it
    lastLeadEvent,      \* the leads before the last call event, and the event
    \* ---- one run of the interest classifier (qa_engine) ----
    iaTranscription,    \* the transcription it is given
    iaLLM,              \* the LLM as it finds it
    iaResult,           \* <<>> until it returns, then <<its result>>
    \* ---- WebSocket sessions (websocket_api globals) ----
    now,                \* now() of the event loop, in milliseconds
    piopiy_ws,          \* the connection audio is sent on: None or a connection
    transcript_q,       \* final utterances from the ASR
    tts_q,              \* bot texts awaiting TTS
    transcription_buffer, \* the fragments of the turn being gathered
    audio_buffer,       \* caller audio not yet sent to the ASR
    bot_speaking_until, \* end of the speaking window, -1 for None
    dg_ws_client,       \* the ASR connection: "none", "connecting", "connected", "down"
    \* ---- per connection: the websocket_endpoint call and its two tasks ----
    ws,                 \* the connection: "new", "open", "remote_closed", "server_closed", "broken"
    handler,            \* where websocket_endpoint stands
    llm_task,           \* ultra_fast_llm_worker: task state, position, locals
    tts_task,           \* ultra_fast_tts_worker: task state, position, locals
    \* ---- history of the sessions, for the properties ----
    ended,              \* connection -> number of end_call_tracking calls of its handler
    frames,             \* number of binary frames received so far
    heard_speaking,     \* the frames received while bot_is_speaking()
    asr_sent,           \* the frames with a byte sent to the ASR connection
    heard,              \* number of messages the ASR delivered so far
    turn_log,           \* the user turns formed, with the reply to each
    last_text,          \* the last text frame received and the tracking dict before it
    voice,              \* the texts posted to the TTS service, those sent as audio and
                        \* the sizes of the audio sent, in order
    \* ---- request handlers inside log_call (calls_api) ----
    log_calls,          \* handler -> where its log_call stands, and with which arguments
    \* ---- the agent configuration (agent_config) ----
    agent_config,       \* the AgentConfig instance, its file, and its last operation
    \* ---- the ASR adapter in detail (websocket_api start_fast_deepgram) ----
    asr,                \* the WebSocketApps created, the one dg_ws_client refers
                        \* to, and the threads running them
    \* ---- the webhook service (webhook_api globals) ----
    webhook             \* pending_hangup, and the requests answered so far

storeVars == <<dbConnected, calls, leads, clock, current_call_data, lastLog, lastLeadEvent>>

iaVars == <<iaTranscription, iaLLM, iaResult>>

restVars == <<log_calls, agent_config, asr, webhook>>

sessionVars == <<now, piopiy_ws, transcript_q, tts_q, transcription_buffer, audio_buffer,
                 bot_speaking_until, dg_ws_client, ws, handler, llm_task, tts_task,
                 ended, frames, heard_speaking, asr_sent, heard, turn_log, last_text,
                 voice>>

vars == <<storeVars, iaVars, restVars, sessionVars>>

\* the variables outside the store
beyondStore == <<iaVars, restVars, sessionVars>>

\* the variables outside the interest classifier
beyondInterest == <<storeVars, restVars, sessionVars>>

(***************************************************************************)
(* Values                                                                  *)
(***************************************************************************)

\* Python's None for ids and strings
NoneVal == "None"

\* Python truthiness of an optional string: None and "" are falsy
Truthy(s) == s # NoneVal /\ s # ""

\* A phone number is kept as its digits and whether it is written with '+'
Phone(plus, digits) == [plus |-> plus, digits |-> digits]

\* the literal "unknown" of end_call_tracking and websocket_endpoint
UnknownPhone == Phone(FALSE, "unknown")

\* phone_number = None in the tracking dict
NoPhone == Phone(FALSE, "None")

\* call_data.get(k, default)
Get(cd, k, default) == IF k \in DOMAIN cd THEN cd[k] ELSE default

Max2(a, b) == IF a >= b THEN a ELSE b

Min2(a, b) == IF a <= b THEN a ELSE b

(***************************************************************************)
(* Interest classifier (qa_engine.py).  Confidence is kept in hundredths:  *)
(* 70 is 0.7, 100 is 1.0.                                                  *)
(***************************************************************************)

\* What a caller can say.  PositiveKeywords / NegativeKeywords give, for each
\* utterance, the keywords of _fallback_interest_analysis that occur in it as
\* substrings ("not interested" contains "interested", and "no" inside "not").
Utterances == {"what is the price", "can i visit the site", "not interested", "hello"}

PositiveKeywords(u) ==
    CASE u = "what is the price"    -> {"price"}
      [] u = "can i visit the site" -> {"visit", "site", "can i"}
      [] u = "not interested"       -> {"interested"}
      [] OTHER                      -> {}

NegativeKeywords(u) ==
    CASE u = "not interested" -> {"not interested", "no"}
      [] OTHER                -> {}

\* the positive keywords found in combined_text, the user messages joined by " "
PositiveFound(transcription) ==
    UNION {PositiveKeywords(transcription[i].content) : i \in DOMAIN transcription}

\* the negative keywords found in combined_text
NegativeFound(transcription) ==
    UNION {NegativeKeywords(transcription[i].content) : i \in DOMAIN transcription}

InterestResult(status, confidence) == [interest_status |-> status, confidence |-> confidence]

ValidStatuses == {"interested", "not_interested", "neutral"}

\* str.lower() on the status strings an LLM answers with
Lower(s) ==
    CASE s = "Interested"     -> "interested"
      [] s = "INTERESTED"     -> "interested"
      [] s = "Not_Interested" -> "not_interested"
      [] s = "Neutral"        -> "neutral"
      [] OTHER                -> s

\* qa_engine.py 460-502: keyword heuristic had it been sure of an interested caller
FallbackInterestAnalysisSure(transcription) ==
    LET positive_score == Cardinality(PositiveFound(transcription))
        negative_score == Cardinality(NegativeFound(transcription))
    IN  IF positive_score > negative_score /\ positive_score >= 2
          THEN InterestResult("interested", 80)
        ELSE IF negative_score > positive_score /\ negative_score >= 1
          THEN InterestResult("not_interested", 70)
        ELSE InterestResult("neutral", 50)

\* qa_engine.py 460-502: keyword heuristic
FallbackInterestAnalysis(transcription) ==
    LET positive_score == Cardinality(PositiveFound(transcription))
        negative_score == Cardinality(NegativeFound(transcription))
    IN  IF positive_score > negative_score /\ positive_score >= 2
          THEN InterestResult("interested", 70)
        ELSE IF negative_score > positive_score /\ negative_score >= 1
          THEN InterestResult("not_interested", 70)
        ELSE InterestResult("neutral", 50)

\* qa_engine.py 438-458: parser of a reply that is not the expected JSON.
\* resp.says_positive: the text contains one of "interested", "positive",
\* "wants to", "asking about"; resp.says_negative: one of "not interested",
\* "negative", "refused", "declined".
FallbackParseResponse(resp) ==
    IF resp.says_positive THEN InterestResult("interested", 60)
    ELSE IF resp.says_negative THEN InterestResult("not_interested", 60)
    ELSE InterestResult("neutral", 50)

\* max(0.0, min(1.0, float(c)))
ClampConfidenceUnchecked(c) == c

ClampConfidence(c) == Max2(0, Min2(100, c))

\* status.lower() checked against valid_statuses
ValidateStatusUnchecked(s) == Lower(s)

ValidateStatus(s) == IF Lower(s) \in ValidStatuses THEN Lower(s) ELSE "neutral"

RequiredKeys == {"interest_status", "confidence", "reasoning", "key_indicators"}

\* qa_engine.py 404-436.  resp.json: the text between the first "{" and the last
\* "}" parses as JSON; resp.keys: the keys of the parsed object; resp.numeric:
\* float(parsed["confidence"]) succeeds; resp.textual: parsed["interest_status"]
\* is a string (.lower() exists).  A failure of either raises inside the try and
\* falls through to the fallback parser.
ParseInterestAnalysisResponse(resp) ==
    IF resp.json /\ RequiredKeys \subseteq resp.keys /\ resp.numeric /\ resp.textual
      THEN InterestResult(ValidateStatus(resp.interest_status), ClampConfidence(resp.confidence))
      ELSE FallbackParseResponse(resp)

\* qa_engine.py 282-303: the result returned for a transcript of fewer than 2 messages
TooShortResult == InterestResult("neutral", 50)

\* qa_engine.py 267-335.  llm.client: groq_client is set; llm.key: GROQ_API_KEY is
\* set and not the placeholder; llm.raises: the completion call raises (timeout,
\* network error); llm.response: the text it returns otherwise.
AnalyzeConversationInterest(transcription, llm) ==
    IF ~llm.client THEN FallbackInterestAnalysis(transcription)
    ELSE IF ~llm.key THEN FallbackInterestAnalysis(transcription)
    ELSE IF Len(transcription) < 2 THEN TooShortResult
    ELSE IF llm.raises THEN FallbackInterestAnalysis(transcription)
    ELSE ParseInterestAnalysisResponse(llm.response)

(***************************************************************************)
(* Lead status ladder                                                      *)
(***************************************************************************)

LeadStatuses == {"new", "called", "contacted", "converted"}

\* webhook_api.py 83: status_hierarchy, with .get(status, 0) for any other value
StatusLevel(status) ==
    CASE status = "new"       -> 0
      [] status = "called"    -> 1
      [] status = "contacted" -> 2
      [] status = "converted" -> 3
      [] OTHER                -> 0

LeadIds == {"L1", "L2", "L3", "L4"}

\* the phone each lead is stored with (leads has a unique index on phone)
LeadPhone(l) ==
    CASE l = "L1" -> Phone(TRUE, "d1")
      [] l = "L2" -> Phone(FALSE, "d2")
      [] l = "L3" -> Phone(TRUE, "d3")
      [] OTHER    -> Phone(FALSE, "d4")

\* webhook_api.py 45-49: clean_phone_number strips "+", "-" and " "
clean_phone_number(phone) == Phone(FALSE, phone.digits)

\* webhook_api.py 65-71: {"phone": clean} or {"phone": "+" + clean} or phone
\* contains clean: the leads whose stored digits contain the cleaned digits
LeadsByCleanPhone(clean) == {l \in LeadIds : LeadPhone(l).digits = clean.digits}

\* webhook_api.py 88-98: the status written, never a lower level than the current one
FinalStatusAlways(current_status, status) == status

FinalStatus(current_status, status) ==
    IF StatusLevel(status) > StatusLevel(current_status) THEN status
    ELSE IF StatusLevel(status) = StatusLevel(current_status) THEN status
    ELSE current_status

\* webhook_api.py 51-125: update_lead_call_status, as the new leads collection
UpdateLeadCallStatus(leadsVal, phone_number, status) ==
    LET clean == clean_phone_number(phone_number)
        found == LeadsByCleanPhone(clean)
    IN  IF ~dbConnected \/ clean.digits = "None" \/ found = {} THEN {leadsVal}
        ELSE {[leadsVal EXCEPT ![l].status = FinalStatus(leadsVal[l].status, status)] : l \in found}

\* calls_api.py 35-49: the lead found by _id, else by exact phone; {} when none
FindLead(phone_number, lead_id) ==
    IF lead_id \in LeadIds THEN {lead_id}
    ELSE {l \in LeadIds : LeadPhone(l) = phone_number}

\* calls_api.py 64-93: the status a call moves a lead to
NewStatusFromCallLowering(current_status, call_data) ==
    IF Get(call_data, "status", "completed") = "initiated" THEN "called" ELSE current_status

NewStatusFromCall(current_status, call_data) ==
    LET call_status      == Get(call_data, "status", "completed")
        call_duration    == Get(call_data, "duration", 0)
        has_conversation == Len(Get(call_data, "transcription", <<>>)) > 0
                            \/ Len(Get(call_data, "ai_responses", <<>>)) > 0
        interest         == Get(call_data, "interest_analysis", <<>>)
        byCall ==
            IF call_status = "initiated"
              THEN IF current_status = "new" THEN "called" ELSE current_status
            ELSE IF call_status = "completed" /\ call_duration > 0
              THEN IF current_status \in {"new", "called"}
                     THEN IF has_conversation THEN "contacted"
                          ELSE IF call_duration > 5 THEN "contacted"
                          ELSE IF current_status = "new" THEN "called" ELSE current_status
                     ELSE current_status
            ELSE current_status
    IN  IF interest # <<>> /\ interest[1].interest_status = "interested"
           /\ interest[1].confidence > 70 /\ current_status \in {"called", "contacted"}
          THEN "converted"
          ELSE byCall

\* calls_api.py 21-112: update_lead_status_from_call, as the new leads collection
UpdateLeadStatusUngated(leadsVal, phone_number, lead_id, call_data) ==
    LET interest == Get(call_data, "interest_analysis", <<>>)
    IN  [l \in DOMAIN leadsVal |->
           IF l \in FindLead(phone_number, lead_id) /\ interest # <<>>
              /\ interest[1].interest_status = "interested" /\ interest[1].confidence > 70
             THEN [leadsVal[l] EXCEPT !.status = "converted"]
             ELSE leadsVal[l]]

UpdateLeadStatusFromCall(leadsVal, phone_number, lead_id, call_data) ==
    LET found == FindLead(phone_number, lead_id)
    IN  IF ~dbConnected \/ found = {} THEN leadsVal
        ELSE LET l == CHOOSE x \in found : TRUE
             IN  [leadsVal EXCEPT ![l].status = NewStatusFromCall(leadsVal[l].status, call_data)]

(***************************************************************************)
(* Call record store (routers/calls_api.py, calls_api.py)                  *)
(* call_date and updated_at are not kept; a call summary is kept as the    *)
(* numbers its text is built from.                                         *)
(***************************************************************************)

\* most records the calls collection holds in a checked run
MaxCalls == 2

\* calls_api.py 120-134: the record built from the arguments
CallRecord(phone_number, lead_id, call_data, session, created) ==
    [call_session_id   |-> session,
     phone_number      |-> phone_number,
     lead_id           |-> lead_id,
     direction         |-> Get(call_data, "direction", "outbound"),
     status            |-> Get(call_data, "status", "completed"),
     duration          |-> Get(call_data, "duration", 0),
     transcription     |-> Get(call_data, "transcription", <<>>),
     ai_responses      |-> Get(call_data, "ai_responses", <<>>),
     call_summary      |-> Get(call_data, "summary", <<>>),
     sentiment         |-> Get(call_data, "sentiment", "neutral"),
     interest_analysis |-> Get(call_data, "interest_analysis", <<>>),
     created_at        |-> created]

\* calls_api.py 140: calls.find_one({"call_session_id": session_id})
ExistingBySessionNone(callsVal, session_id) == {}

ExistingBySession(callsVal, session_id) ==
    {i \in DOMAIN callsVal : callsVal[i].call_session_id = session_id}

\* mongo_client.py 49: the sparse unique index on call_session_id rejects an
\* insert whose session id is already stored
InsertRejectedNever(callsVal, rec) == FALSE

InsertRejected(callsVal, rec) ==
    rec.call_session_id # NoneVal
    /\ \E i \in DOMAIN callsVal : callsVal[i].call_session_id = rec.call_session_id

\* calls_api.py 143-160: $set of every field but created_at on the existing record
UpdateExisting(old, rec) == [rec EXCEPT !.call_session_id = old.call_session_id,
                                        !.created_at = old.created_at]

\* calls_api.py 166-197: insert_one of the record log_call built, and what
\* follows it; a rejected insert raises into the except of line 195
LogCallInsert(callsVal, leadsVal, phone_number, lead_id, call_data, rec) ==
    IF InsertRejected(callsVal, rec)
      THEN [calls |-> callsVal, leads |-> leadsVal, success |-> FALSE]
      ELSE [calls   |-> Append(callsVal, rec),
            leads   |-> IF DOMAIN call_data # {}
                          THEN UpdateLeadStatusFromCall(leadsVal, phone_number, lead_id, call_data)
                          ELSE leadsVal,
            success |-> TRUE]

\* calls_api.py 114-197: log_call, as [calls, leads, success]
LogCall(callsVal, leadsVal, phone_number, lead_id, call_data) ==
    LET session_id == Get(call_data, "call_session_id", NoneVal)
        existing   == IF Truthy(session_id) THEN ExistingBySession(callsVal, session_id) ELSE {}
        rec        == CallRecord(phone_number, lead_id, call_data,
                                 IF Truthy(session_id) THEN session_id ELSE NoneVal, clock)
    IN  IF ~dbConnected
          THEN [calls |-> callsVal, leads |-> leadsVal, success |-> FALSE]
        ELSE IF existing # {}
          THEN LET i == CHOOSE x \in existing : \A y \in existing : x <= y
               IN  [calls   |-> [callsVal EXCEPT ![i] = UpdateExisting(callsVal[i], rec)],
                    leads   |-> leadsVal,
                    success |-> TRUE]
        ELSE LogCallInsert(callsVal, leadsVal, phone_number, lead_id, call_data, rec)

\* what the properties remember of a log_call: its arguments
LogArgs(phone_number, lead_id, call_data) ==
    [phone_number |-> phone_number, lead_id |-> lead_id, call_data |-> call_data]

NoLog == <<>>

SessionIds == {"s1", "s2"}

\* lastLog after a log_call carrying a session id, with the database connected
Remember(log, phone_number, lead_id, call_data) ==
    LET session_id == Get(call_data, "call_session_id", NoneVal)
    IN  IF dbConnected /\ session_id \in SessionIds
          THEN [log EXCEPT ![session_id] = <<LogArgs(phone_number, lead_id, call_data)>>]
          ELSE log

(***************************************************************************)
(* Call tracking (routers/websocket_api.py 151-309)                        *)
(* Message timestamps are not kept.                                        *)
(***************************************************************************)

\* most user messages one call tracks in a checked run
MaxMsgs == 2

\* most bot messages one call tracks in a checked run
MaxBotMsgs == 1

\* latest time of a checked run, in ticks of TickS seconds
MaxClock == 1

\* seconds that pass in one step of the clock
TickS == 301

\* websocket_api.py 262: timedelta(minutes=5), in seconds
FiveMinutesS == 300

\* websocket_api.py 80-88, 301-309: the empty tracking dict
EmptyCallData ==
    [phone_number    |-> NoPhone,
     lead_id         |-> NoneVal,
     transcription   |-> <<>>,
     ai_responses    |-> <<>>,
     start_time      |-> -1,
     call_session_id |-> NoneVal]

\* websocket_api.py 196-204: start_call_tracking
StartedCallData(phone_number, lead_id, call_session_id) ==
    [phone_number    |-> phone_number,
     lead_id         |-> lead_id,
     transcription   |-> <<>>,
     ai_responses    |-> <<>>,
     start_time      |-> clock,
     call_session_id |-> call_session_id]

\* websocket_api.py 151-191: log_call_message on the tracking dict
LoggedMessage(ccd, message_type, content) ==
    IF message_type = "user"
      THEN [ccd EXCEPT !.transcription = Append(@, [type |-> "user", content |-> content])]
    ELSE IF message_type \in {"bot", "greeting", "exit"}
      THEN [ccd EXCEPT !.ai_responses = Append(@, [type |-> message_type, content |-> content])]
    ELSE ccd

\* websocket_api.py 665-677: the initiated record of the last 5 minutes with the
\* session id, newest first
RecentInitiatedBySession(callsVal, session_id) ==
    LET match == {i \in DOMAIN callsVal :
                    /\ callsVal[i].call_session_id = session_id
                    /\ callsVal[i].status = "initiated"
                    /\ callsVal[i].created_at >= clock - FiveMinutesS}
    IN  {i \in match : \A j \in match : callsVal[j].created_at <= callsVal[i].created_at}

\* websocket_api.py 262-269: the initiated record of the last 5 minutes with the
\* lead id, or with the phone number when no lead id is tracked, newest first
RecentInitiatedNone(callsVal, ccd, phone_to_log) == {}

RecentInitiated(callsVal, ccd, phone_to_log) ==
    LET match == {i \in DOMAIN callsVal :
                    /\ callsVal[i].status = "initiated"
                    /\ callsVal[i].created_at >= clock - FiveMinutesS
                    /\ IF Truthy(ccd.lead_id)
                         THEN callsVal[i].lead_id = ccd.lead_id
                         ELSE callsVal[i].phone_number = phone_to_log}
    IN  {i \in match : \A j \in match : callsVal[j].created_at <= callsVal[i].created_at}

\* websocket_api.py 210-216: nothing worth saving, end_call_tracking returns at once
NothingToSave(ccd) ==
    /\ ccd.transcription = <<>>
    /\ ccd.ai_responses = <<>>
    /\ ccd.phone_number \in {NoPhone, UnknownPhone}

\* websocket_api.py 241-250: the call data end_call_tracking writes
EndCallData(ccd, interest) ==
    [duration          |-> IF ccd.start_time >= 0 THEN clock - ccd.start_time ELSE 0,
     transcription     |-> ccd.transcription,
     ai_responses      |-> ccd.ai_responses,
     summary           |-> <<Len(ccd.transcription), Len(ccd.ai_responses)>>,
     sentiment         |-> "neutral",
     interest_analysis |-> interest,
     call_session_id   |-> ccd.call_session_id,
     status            |-> "completed"]

\* websocket_api.py 271-283: $set on the initiated record found
PromoteInitiated(old, call_data) ==
    [old EXCEPT !.status            = "completed",
                !.duration          = call_data.duration,
                !.transcription     = call_data.transcription,
                !.ai_responses      = call_data.ai_responses,
                !.call_summary      = call_data.summary,
                !.sentiment         = call_data.sentiment,
                !.interest_analysis = call_data.interest_analysis]

\* a reply of the LLM that is the JSON asked for
JsonReply(status, confidence) ==
    [json |-> TRUE, keys |-> RequiredKeys, numeric |-> TRUE, textual |-> TRUE,
     interest_status |-> status, confidence |-> confidence,
     says_positive |-> TRUE, says_negative |-> FALSE]

\* the LLM as the interest analysis of a finished call finds it: not
\* configured, or answering with the JSON asked for
LLMStates ==
    {[client |-> FALSE, key |-> FALSE, raises |-> FALSE, response |-> JsonReply("neutral", 50)],
     [client |-> TRUE, key |-> TRUE, raises |-> FALSE, response |-> JsonReply("interested", 85)]}

\* websocket_api.py 223-239: the interest analysis of a call, None without a
\* conversation in both directions
InterestOutcomes(ccd) ==
    IF ccd.transcription # <<>> /\ ccd.ai_responses # <<>>
      THEN {<<AnalyzeConversationInterest(ccd.transcription, llm)>> : llm \in LLMStates}
      ELSE {<<>>}

\* websocket_api.py 252-296: what end_call_tracking writes, as the set of
\* [calls, leads, log] it may leave; when the update of the initiated record
\* raises (update_raises), the handler of lines 287-289 calls log_call instead
EndCallWritesWhen(ccd, callsVal, leadsVal, log, update_raises) ==
    LET phone_to_log == IF ccd.phone_number = NoPhone THEN UnknownPhone ELSE ccd.phone_number
        plain(cd) ==
            LET r == LogCall(callsVal, leadsVal, phone_to_log, ccd.lead_id, cd)
            IN  [calls |-> r.calls, leads |-> r.leads,
                 log |-> Remember(log, phone_to_log, ccd.lead_id, cd)]
    IN  IF ccd.transcription = <<>> /\ ccd.ai_responses = <<>>
          THEN {[calls |-> callsVal, leads |-> leadsVal, log |-> log]}
        ELSE UNION {
          LET cd == EndCallData(ccd, interest)
          IN  IF Truthy(ccd.call_session_id)
                THEN LET r == LogCall(callsVal, leadsVal, phone_to_log, ccd.lead_id, cd)
                     IN  {[calls |-> r.calls,
                           leads |-> IF r.success
                                       THEN UpdateLeadStatusFromCall(r.leads, phone_to_log, ccd.lead_id, cd)
                                       ELSE r.leads,
                           log   |-> Remember(log, phone_to_log, ccd.lead_id, cd)]}
              ELSE IF phone_to_log # UnknownPhone /\ dbConnected
                THEN LET recent == RecentInitiated(callsVal, ccd, phone_to_log)
                     IN  IF recent # {} /\ ~update_raises
                           THEN {[calls |-> [callsVal EXCEPT ![i] = PromoteInitiated(@, cd)],
                                  leads |-> UpdateLeadStatusFromCall(leadsVal, phone_to_log, ccd.lead_id, cd),
                                  log   |-> IF callsVal[i].call_session_id \in SessionIds
                                              THEN [log EXCEPT ![callsVal[i].call_session_id] = NoLog]
                                              ELSE log] : i \in recent}
                           ELSE {plain(cd)}
              ELSE {plain(cd)}
          : interest \in InterestOutcomes(ccd)}

\* websocket_api.py 252-296: what end_call_tracking writes, the update of the
\* initiated record going through or raising
EndCallWrites(ccd, callsVal, leadsVal, log) ==
    EndCallWritesWhen(ccd, callsVal, leadsVal, log, FALSE)
        \cup EndCallWritesWhen(ccd, callsVal, leadsVal, log, TRUE)

(***************************************************************************)
(* Store: actions                                                          *)
(***************************************************************************)

\* The WebSocket sessions of a checked run all belong to one telephone call: the
\* call to lead L1 at +d1, whose session id, when the provider passes one, is s1.
\* A session presents the phone, the lead id and the session id, or leaves any
\* of them out (websocket_api.py 647-655: "unknown", None, None).
TheCallSessions ==
    {<<Phone(TRUE, "d1"), "L1", "s1">>, <<Phone(TRUE, "d1"), "L1", NoneVal>>,
     <<Phone(TRUE, "d1"), NoneVal, NoneVal>>, <<UnknownPhone, NoneVal, NoneVal>>}

\* call data the HTTP callers of log_call pass: call_lead_endpoint
\* (leads_api_mongo.py 383-393) and POST /api/calls (calls_api.py 320-331)
CallDataSamples(session) ==
    {[direction |-> "outbound", status |-> "initiated", duration |-> 0,
      summary |-> <<0>>, call_session_id |-> session],
     [direction |-> "inbound", status |-> "completed", duration |-> 3,
      transcription |-> <<[type |-> "user", content |-> "hello"]>>,
      sentiment |-> "positive",
      interest_analysis |-> <<InterestResult("interested", 90)>>,
      call_session_id |-> session],
     [status |-> "failed", call_session_id |-> session]}

NoEvent == <<>>

\* the request handlers that may be inside log_call at the same time
Handlers == {"h1", "h2"}

\* a handler that is not inside log_call; success is what its last log_call returned
NoLogCall == [pc |-> "out", phone_number |-> NoPhone, lead_id |-> NoneVal,
              call_data |-> <<>>, at |-> 0, success |-> TRUE]

\* agent_config.py 14-26: default_config, the three messages
default_config ==
    [greeting_message |-> "default greeting", exit_message |-> "default exit",
     system_prompt |-> "default prompt"]

ConfigKeys == DOMAIN default_config

\* agent_config.py 38-42: load_config of an existing file, {**default_config, **config}
load_config(file) ==
    [k \in ConfigKeys |-> IF k \in DOMAIN file THEN file[k] ELSE default_config[k]]

\* what the file of the configuration may hold when the instance is made:
\* nothing (no file), or some of the keys
FilesAtStart ==
    {<<>>, <<[greeting_message |-> "old greeting"]>>,
     <<[greeting_message |-> "old greeting", exit_message |-> "old exit",
        system_prompt |-> "old prompt"]>>}

\* no operation of the instance yet
NoOp == [op |-> "init", key |-> NoneVal, arg |-> NoneVal, ok |-> TRUE, value |-> NoneVal]

\* agent_config.py 12-33, 35-49: AgentConfig(path) with the file it finds, which
\* it can write or not; without a file it writes the defaults when it can
AgentConfigs ==
    {[config        |-> IF f = <<>> THEN default_config ELSE load_config(f[1]),
      file          |-> IF f = <<>> /\ w THEN <<default_config>> ELSE f,
      mtime         |-> 0,
      last_modified |-> 0,
      writable      |-> w,
      ops           |-> 0,
      last          |-> NoOp] : f \in FilesAtStart, w \in BOOLEAN}

\* the instance of a run in which the configuration is left alone
TheAgentConfig ==
    CHOOSE ac \in AgentConfigs : ac.writable /\ ac.config = default_config /\ ac.file = <<default_config>>

\* websocket_api.py 71: dg_ws_client = None, no WebSocketApp and no thread yet;
\* failures counts the failures of connections so far
NoAsr == [apps |-> 0, current |-> 0, threads |-> <<>>, failures |-> 0]

\* webhook_api.py 30-31: pending_hangup = False after import; answers lists the
\* requests answered so far, inbound where each handler of an inbound call stands
NoWebhook == [pending_hangup |-> FALSE, answers |-> <<>>, inbound |-> [h \in Handlers |-> "idle"]]

\* no log_call under way, the configuration as the instance found it, no ASR
\* connection made, no hangup pending
InitRest ==
    /\ log_calls = [h \in Handlers |-> NoLogCall]
    /\ agent_config = TheAgentConfig
    /\ asr = NoAsr
    /\ webhook = NoWebhook

\* the two connections of a checked run
Sessions == {"A", "B"}

\* a task that was not created yet; first_at is the time kept with the first
\* transcript of the buffer (websocket_api.py 464), -1 while the buffer is empty
NoLlmTask ==
    [state |-> "none", pc |-> "start", session_started |-> FALSE,
     last_activity |-> 0, last_transcription_time |-> 0,
     hold_until |-> 0, wake_at |-> 0, gen_start |-> 0, history |-> 0,
     first_at |-> -1]

NoTtsTask == [state |-> "none", pc |-> "idle", text |-> ""]

\* websocket_api.py 68-88: the module globals after import, no connection yet
InitSessionVars ==
    /\ now = 0
    /\ piopiy_ws = NoneVal
    /\ transcript_q = <<>>
    /\ tts_q = <<>>
    /\ transcription_buffer = <<>>
    /\ audio_buffer = <<>>
    /\ bot_speaking_until = -1
    /\ dg_ws_client = "none"
    /\ ws = [s \in Sessions |-> "new"]
    /\ handler = [s \in Sessions |-> "none"]
    /\ llm_task = [s \in Sessions |-> NoLlmTask]
    /\ tts_task = [s \in Sessions |-> NoTtsTask]
    /\ ended = [s \in Sessions |-> 0]
    /\ frames = 0
    /\ heard_speaking = {}
    /\ asr_sent = {}
    /\ heard = 0
    /\ turn_log = <<>>
    /\ last_text = NoEvent
    /\ voice = [posts |-> <<>>, sent |-> <<>>, sizes |-> <<>>]

\* the store after start-up
InitStoreVars ==
    /\ dbConnected \in BOOLEAN
    /\ calls = <<>>
    /\ leads = [l \in LeadIds |-> [phone |-> LeadPhone(l), status |-> "new"]]
    /\ clock = 0
    /\ current_call_data = EmptyCallData
    /\ lastLog = [sid \in SessionIds |-> NoLog]
    /\ lastLeadEvent = NoEvent

\* no run of the interest classifier
InitInterestIdle ==
    /\ iaTranscription = <<>>
    /\ iaLLM = [client |-> FALSE, key |-> FALSE, raises |-> FALSE, response |-> JsonReply("neutral", 50)]
    /\ iaResult = <<>>

InitStore == InitStoreVars /\ InitInterestIdle /\ InitSessionVars /\ InitRest

\* time passes
Tick ==
    /\ clock < MaxClock * TickS
    /\ clock' = clock + TickS
    /\ UNCHANGED <<dbConnected, calls, leads, current_call_data, lastLog, lastLeadEvent>>
    /\ UNCHANGED beyondStore

\* an HTTP caller logs a call: log_call(phone_number, lead_id, call_data)
LogCallRequest(phone_number, lead_id, call_data) ==
    LET r == LogCall(calls, leads, phone_number, lead_id, call_data)
    IN  /\ Len(r.calls) <= MaxCalls
        /\ calls' = r.calls
        /\ leads' = r.leads
        /\ lastLog' = Remember(lastLog, phone_number, lead_id, call_data)
        /\ UNCHANGED <<dbConnected, clock, current_call_data, lastLeadEvent>>
        /\ UNCHANGED beyondStore

\* leads_api_mongo.py 369-408: call_lead_endpoint logs the initiated call and
\* applies the lead status rule once more
CallLead(lead_id, session) ==
    LET cd == [direction |-> "outbound", status |-> "initiated", duration |-> 0,
               summary |-> <<0>>, call_session_id |-> session]
        r  == LogCall(calls, leads, LeadPhone(lead_id), lead_id, cd)
    IN  /\ dbConnected
        /\ Len(r.calls) <= MaxCalls
        /\ calls' = r.calls
        /\ leads' = UpdateLeadStatusFromCall(r.leads, LeadPhone(lead_id), lead_id, cd)
        /\ lastLog' = Remember(lastLog, LeadPhone(lead_id), lead_id, cd)
        /\ UNCHANGED <<dbConnected, clock, current_call_data, lastLeadEvent>>
        /\ UNCHANGED beyondStore

\* websocket_api.py 659-677: start_call_tracking, then the call context is taken
\* from the initiated record with the session id; the tracking dicts this may leave
OpenedCallData(phone_number, lead_id, session_id) ==
    LET started == StartedCallData(phone_number, lead_id, session_id)
        recent  == IF dbConnected /\ Truthy(session_id)
                     THEN RecentInitiatedBySession(calls, session_id) ELSE {}
    IN  IF recent = {} THEN {started}
        ELSE {[started EXCEPT !.phone_number = calls[i].phone_number,
                              !.lead_id = calls[i].lead_id] : i \in recent}

\* websocket_api.py 647-677: a session of the call opens
TrackSession(phone_number, lead_id, session_id) ==
    /\ current_call_data.start_time < 0
    /\ current_call_data' \in OpenedCallData(phone_number, lead_id, session_id)
    /\ UNCHANGED <<dbConnected, calls, leads, clock, lastLog, lastLeadEvent>>
    /\ UNCHANGED beyondStore

\* websocket_api.py 151-191: a worker logs a message of the conversation
LogCallMessage(message_type, content) ==
    /\ current_call_data.start_time >= 0
    /\ message_type = "user" => Len(current_call_data.transcription) < MaxMsgs
    /\ message_type # "user" => Len(current_call_data.ai_responses) < MaxBotMsgs
    /\ current_call_data' = LoggedMessage(current_call_data, message_type, content)
    /\ UNCHANGED <<dbConnected, calls, leads, clock, lastLog, lastLeadEvent>>
    /\ UNCHANGED beyondStore

\* websocket_api.py 298-309: the tracking dict had it been reset only after a
\* write to the store
TrackingKeptOnFailure(ccd, callsVal, w) == IF w.calls = callsVal THEN ccd ELSE EmptyCallData

\* websocket_api.py 298-309: the tracking dict after end_call_tracking went
\* through its try block, whatever w it wrote to the calls callsVal
TrackingAfterEnd(ccd, callsVal, w) == EmptyCallData

\* websocket_api.py 207-309: what end_call_tracking does to the store and to the
\* tracking dict
EndCallTrackingWrites ==
    IF NothingToSave(current_call_data)
      THEN UNCHANGED <<calls, leads, lastLog, current_call_data>>
      ELSE \E w \in EndCallWrites(current_call_data, calls, leads, lastLog) :
             /\ calls' = w.calls
             /\ leads' = w.leads
             /\ lastLog' = w.log
             /\ current_call_data' = TrackingAfterEnd(current_call_data, calls, w)

\* websocket_api.py 207-309: end_call_tracking at the end of a session
EndCallTracking ==
    /\ current_call_data.start_time >= 0
    /\ EndCallTrackingWrites
    /\ Len(calls') <= MaxCalls
    /\ UNCHANGED <<dbConnected, clock, lastLeadEvent>>
    /\ UNCHANGED beyondStore

\* websocket_api.py 207-309: end_call_tracking at the end of a session, the
\* store answering every request it makes
EndCallTrackingAnswered ==
    /\ current_call_data.start_time >= 0
    /\ IF NothingToSave(current_call_data)
         THEN UNCHANGED <<calls, leads, lastLog, current_call_data>>
         ELSE \E w \in EndCallWritesWhen(current_call_data, calls, leads, lastLog, FALSE) :
                /\ calls' = w.calls
                /\ leads' = w.leads
                /\ lastLog' = w.log
                /\ current_call_data' = TrackingAfterEnd(current_call_data, calls, w)
    /\ Len(calls') <= MaxCalls
    /\ UNCHANGED <<dbConnected, clock, lastLeadEvent>>
    /\ UNCHANGED beyondStore

\* the HTTP callers of log_call
NextLog ==
    \/ \E l \in {"L1", NoneVal}, sid \in SessionIds \cup {NoneVal, ""} :
         \E cd \in CallDataSamples(sid) \cup {<<>>} : LogCallRequest(Phone(TRUE, "d1"), l, cd)
    \/ \E sid \in SessionIds : CallLead("L1", sid)

SpecLog == InitStore /\ [][NextLog]_vars

\* the sessions of the call and the outbound call that starts it
NextStore ==
    \/ Tick
    \/ CallLead("L1", "s1")
    \/ \E c \in TheCallSessions : TrackSession(c[1], c[2], c[3])
    \/ LogCallMessage("user", "can i visit the site")
    \/ LogCallMessage("greeting", "text")
    \/ EndCallTracking

SpecStore == InitStore /\ [][NextStore]_vars

(***************************************************************************)
(* Lead status: the events that move a lead                                *)
(***************************************************************************)

\* what the properties remember of a call event
LeadEvent(source, status) == <<[before |-> leads, source |-> source, status |-> status]>>

\* webhook_api.py 174-263: handle_call_events
HandleCallEvent(event_type, phone_number, duration) ==
    LET status == CASE event_type = "answer" -> "contacted"
                    [] event_type = "hangup" -> IF duration > 10 THEN "contacted" ELSE "called"
                    [] OTHER                 -> "called"
    IN  /\ leads' \in UpdateLeadCallStatus(leads, phone_number, status)
        /\ lastLeadEvent' = LeadEvent("webhook", status)
        /\ UNCHANGED <<dbConnected, calls, clock, current_call_data, lastLog>>
        /\ UNCHANGED beyondStore

\* calls_api.py 21-112: the lead status rule applied for a call
ApplyCallToLead(phone_number, lead_id, call_data) ==
    /\ leads' = UpdateLeadStatusFromCall(leads, phone_number, lead_id, call_data)
    /\ lastLeadEvent' = LeadEvent("call", call_data.status)
    /\ UNCHANGED <<dbConnected, calls, clock, current_call_data, lastLog>>
    /\ UNCHANGED beyondStore

\* call data as update_lead_status_from_call reads it
LeadCallData ==
    {[status |-> st, duration |-> d, transcription |-> t, interest_analysis |-> ia] :
        st \in {"initiated", "completed", "failed"}, d \in {0, 3, 20},
        t \in {<<>>, <<[type |-> "user", content |-> "hello"]>>},
        ia \in {<<>>, <<InterestResult("interested", 70)>>, <<InterestResult("interested", 85)>>,
                <<InterestResult("not_interested", 90)>>}}

NextLead ==
    \/ \E e \in {"answer", "hangup", "no-answer"},
          p \in {Phone(b, d) : b \in BOOLEAN, d \in {"d1", "d2", "d3", "d4", "None"}},
          d \in {0, 20} :
         HandleCallEvent(e, p, d)
    \/ \E l \in LeadIds \cup {NoneVal}, p \in {LeadPhone("L2"), UnknownPhone} :
         \E cd \in LeadCallData : ApplyCallToLead(p, l, cd)

SpecLead == InitStore /\ [][NextLead]_vars

(***************************************************************************)
(* Properties of the store                                                 *)
(***************************************************************************)

\* the records of the calls collection that carry a session id
RecordsWithSession(session_id) ==
    {i \in DOMAIN calls : calls[i].call_session_id = session_id}

\* a record holds the values a log_call was given (the defaults of
\* calls_api.py 124-131 for what the call data leaves out)
HoldsSupplied(rec, args) ==
    /\ rec.phone_number      = args.phone_number
    /\ rec.lead_id           = args.lead_id
    /\ rec.direction         = Get(args.call_data, "direction", "outbound")
    /\ rec.status            = Get(args.call_data, "status", "completed")
    /\ rec.duration          = Get(args.call_data, "duration", 0)
    /\ rec.transcription     = Get(args.call_data, "transcription", <<>>)
    /\ rec.ai_responses      = Get(args.call_data, "ai_responses", <<>>)
    /\ rec.call_summary      = Get(args.call_data, "summary", <<>>)
    /\ rec.sentiment         = Get(args.call_data, "sentiment", "neutral")
    /\ rec.interest_analysis = Get(args.call_data, "interest_analysis", <<>>)

\* C1: with the database connected, after any sequence of log_call invocations
\* carrying the same non-empty call_session_id, exactly one record of the calls
\* collection has that id and its fields are those of the last invocation.
C1_IdempotentLog ==
    \A sid \in SessionIds :
        (dbConnected /\ lastLog[sid] # NoLog) =>
            /\ Cardinality(RecordsWithSession(sid)) = 1
            /\ \A i \in RecordsWithSession(sid) : HoldsSupplied(calls[i], lastLog[sid][1])

\* C1 witness: the only record carries s1 and is completed, while lead L1 is at
\* called: the record was inserted by an initiated call (the only way L1 gets to
\* called here) and then overwritten by a later log_call with the same id.
C1_Witness ==
    /\ Len(calls) = 1
    /\ calls[1].call_session_id = "s1"
    /\ calls[1].status = "completed"
    /\ calls[1].direction = "inbound"
    /\ leads["L1"].status = "called"
    /\ lastLog["s1"] # NoLog

\* C2: one call leaves exactly one record, however many sessions of it open and
\* close, with or without a session id.  Every record of SpecStore belongs to
\* the one call it models.
C2_OneRecordPerCall == Len(calls) <= 1

\* C6: no call event lowers a lead's rank on new < called < contacted < converted.
C6_LeadRankNeverDecreases ==
    lastLeadEvent # NoEvent =>
        \A l \in LeadIds :
            StatusLevel(leads[l].status) >= StatusLevel(lastLeadEvent[1].before[l].status)

\* C6 witness: a lead that was at contacted has received an initiated call and
\* is still at contacted.
C6_Witness ==
    /\ lastLeadEvent # NoEvent
    /\ lastLeadEvent[1].source = "call"
    /\ lastLeadEvent[1].status = "initiated"
    /\ lastLeadEvent[1].before["L1"].status = "contacted"
    /\ leads["L1"].status = "contacted"

(***************************************************************************)
(* Interest classifier: one run on every input                             *)
(***************************************************************************)

\* most user messages of a transcription the classifier is run on
MaxTurns == 2

\* the transcriptions of at most n user messages
RECURSIVE Transcriptions(_)
Transcriptions(n) ==
    IF n = 0 THEN {<<>>}
    ELSE LET shorter == Transcriptions(n - 1)
         IN  shorter \cup {Append(t, [type |-> "user", content |-> u]) :
                              t \in {x \in shorter : Len(x) = n - 1}, u \in Utterances}

\* replies of the LLM: free text, the JSON asked for with any status and any
\* confidence, and JSON that lacks a key or holds a value of the wrong type
LLMReplies ==
    {[json |-> FALSE, keys |-> {}, numeric |-> FALSE, textual |-> FALSE,
      interest_status |-> "neutral", confidence |-> 0,
      says_positive |-> p, says_negative |-> n] : p \in BOOLEAN, n \in BOOLEAN}
    \cup {JsonReply(st, c) : st \in {"interested", "INTERESTED", "Not_Interested", "neutral", "maybe"},
                             c \in {-50, 0, 85, 100, 150}}
    \cup {[JsonReply("interested", 150) EXCEPT !.keys = RequiredKeys \ {"confidence"}],
          [JsonReply("maybe", 150) EXCEPT !.numeric = FALSE],
          [JsonReply("maybe", 150) EXCEPT !.textual = FALSE, !.says_positive = FALSE]}

\* the LLM as a run finds it
LLMConditions ==
    {[client |-> FALSE, key |-> TRUE, raises |-> FALSE, response |-> JsonReply("interested", 150)],
     [client |-> TRUE, key |-> FALSE, raises |-> FALSE, response |-> JsonReply("interested", 150)],
     [client |-> TRUE, key |-> TRUE, raises |-> TRUE, response |-> JsonReply("interested", 150)]}
    \cup {[client |-> TRUE, key |-> TRUE, raises |-> FALSE, response |-> r] : r \in LLMReplies}

InitInterest ==
    /\ InitStoreVars
    /\ InitSessionVars
    /\ InitRest
    /\ iaTranscription \in Transcriptions(MaxTurns)
    /\ iaLLM \in LLMConditions
    /\ iaResult = <<>>

\* qa_engine.py 267-335: analyze_conversation_interest returns
Analyze ==
    /\ iaResult = <<>>
    /\ iaResult' = <<AnalyzeConversationInterest(iaTranscription, iaLLM)>>
    /\ UNCHANGED <<iaTranscription, iaLLM>>
    /\ UNCHANGED beyondInterest

NextInterest == Analyze

SpecInterest == InitInterest /\ [][NextInterest]_vars

\* C10: every result of analyze_conversation_interest has a confidence in
\* [0.0, 1.0] and one of the three statuses, whatever the LLM answers.
C10_InterestBounds ==
    iaResult # <<>> =>
        /\ 0 <= iaResult[1].confidence
        /\ iaResult[1].confidence <= 100
        /\ iaResult[1].interest_status \in ValidStatuses

\* C10 witness: the LLM answered JSON with confidence 1.5 and the status "maybe";
\* the result is neutral with confidence 1.0.
C10_Witness ==
    /\ iaResult = <<InterestResult("neutral", 100)>>
    /\ iaLLM.client /\ iaLLM.key /\ ~iaLLM.raises
    /\ iaLLM.response.json /\ iaLLM.response.numeric /\ iaLLM.response.textual
    /\ iaLLM.response.keys = RequiredKeys
    /\ iaLLM.response.confidence = 150
    /\ iaLLM.response.interest_status = "maybe"
    /\ Len(iaTranscription) = 2

(***************************************************************************)
(* Sessions (routers/websocket_api.py): the workers' steps                 *)
(*                                                                         *)
(* A task runs from one suspension point to the next in one step.  Time is *)
(* in milliseconds and moves from deadline to deadline.                    *)
(***************************************************************************)

\* websocket_api.py 47
LISTEN_HOLD_MS == 500

\* websocket_api.py 48
BOT_SPEAKING_PAD_MS == 150

\* websocket_api.py 49
NUDGE_AFTER_SILENCE_S == 15

\* websocket_api.py 50
END_AFTER_IDLE_S == 60

\* websocket_api.py 53
AUDIO_BUFFER_SIZE == 8000

\* websocket_api.py 500: timeout=12.0
LLM_TIMEOUT_MS == 12000

\* websocket_api.py 451, 490: asyncio.sleep(3)
HANGUP_DELAY_MS == 3000

\* what a connection passes in its query string: phone number, lead id, session id
SessionQuery(s) ==
    IF s = "A" THEN <<Phone(TRUE, "d1"), "L1", "s1">>
               ELSE <<Phone(FALSE, "d2"), NoneVal, "s2">>

\* agent_config.py 101-109: the configured greeting and exit message
Greeting == "greeting message"

ExitMessage == "exit message"

\* websocket_api.py 440
NudgePrompt == "are you still there"

\* websocket_api.py 509
TimeoutFallback == "sorry, taking a bit longer"

\* websocket_api.py 515-519
AuthErrorReply == "sorry, authentication issue"

ConnectionErrorReply == "sorry, trouble connecting"

GenericErrorReply == "sorry, i encountered an error"

\* qa_engine.py 183-225: what get_response returns, the LLM's answer or one of
\* its own fallback sentences
Answer == "answer"

\* websocket_api.py 131-132
bot_is_speaking == bot_speaking_until >= 0 /\ now < bot_speaking_until

\* websocket_api.py 124-129, 360-362: the end of the speaking window for audio of
\* raw_len_bytes bytes, 8000 samples of 2 bytes a second
SpeakingUntilNoEarlier(raw_len_bytes) ==
    Max2(bot_speaking_until,
         now + (raw_len_bytes * 1000) \div (8000 * 2) + BOT_SPEAKING_PAD_MS)

SpeakingUntil(raw_len_bytes) == now + (raw_len_bytes * 1000) \div (8000 * 2) + BOT_SPEAKING_PAD_MS

\* qa_engine.py 237: user_input.lower(), on the words a caller says here
LowerWord(t) ==
    CASE t = "Goodbye" -> "goodbye"
      [] t = "Thank"   -> "thank"
      [] OTHER         -> t

\* qa_engine.py 238-243: the exit keywords that occur inside a lower-case word
\* ("goodbye" holds "bye" too, "friend" holds "end")
ExitKeywordsIn(word) ==
    CASE word = "bye"     -> {"bye"}
      [] word = "goodbye" -> {"bye", "goodbye"}
      [] word = "friend"  -> {"end"}
      [] OTHER            -> {}

\* qa_engine.py 235-244: an exit keyword occurs in the lower-cased user text.
\* The text is given by its fragments, which a space joins: a keyword lies
\* inside a fragment, or is "thank you" across two neighbours.
is_exit_intent_exact(fragments) ==
    \E i \in DOMAIN fragments : fragments[i] \in {"bye", "goodbye", "exit", "quit", "stop", "end"}

is_exit_intent(fragments) ==
    LET words == [i \in DOMAIN fragments |-> LowerWord(fragments[i])]
    IN  \/ \E i \in DOMAIN words : ExitKeywordsIn(words[i]) # {}
        \/ \E i \in DOMAIN words :
              i < Len(words) /\ words[i] = "thank" /\ words[i + 1] = "you"

\* websocket_api.py 473: " ".join(...) of the fragments
RECURSIVE JoinUnspaced(_)
JoinUnspaced(fragments) ==
    IF fragments = <<>> THEN ""
    ELSE fragments[1] \o JoinUnspaced(Tail(fragments))

RECURSIVE Join(_)
Join(fragments) ==
    IF fragments = <<>> THEN ""
    ELSE IF Len(fragments) = 1 THEN fragments[1]
    ELSE fragments[1] \o " " \o Join(Tail(fragments))

\* websocket_api.py 473: t[0].strip(), for the transcripts a caller's speech
\* gives here; only these two carry white space at their ends
Strip(t) ==
    CASE t = " "       -> ""
      [] t = " there " -> "there"
      [] OTHER         -> t

\* websocket_api.py 473: t[0] and t[0].strip()
NotBlank(t) == t # "" /\ Strip(t) # ""

\* websocket_api.py 473: the stripped fragments that are not blank, in order
Fragments(buffer) ==
    LET kept == SelectSeq(buffer, NotBlank)
    IN  [i \in DOMAIN kept |-> Strip(kept[i])]

\* websocket_api.py 507-521: the reply the worker gives when the Response
\* Generator call fails
ReplyOnFailureGeneric(failure) == GenericErrorReply

ReplyOnFailure(failure) ==
    CASE failure = "timeout"    -> TimeoutFallback
      [] failure = "api_key"    -> AuthErrorReply
      [] failure = "connection" -> ConnectionErrorReply
      [] OTHER                  -> GenericErrorReply

\* websocket_api.py 523-526: the length of history after a turn had it only grown
HistoryAfterTurnUncut(n) == n + 2

\* websocket_api.py 523-528: the length of history after a turn
HistoryAfterTurn(n) == IF n + 2 > 8 THEN 6 ELSE n + 2

\* websocket_api.py 496-501: where the worker stands while the Response
\* Generator runs: suspended in wait_for
PcDetached == "loop"

PcGenerating == "generating"

\* What a step of the LLM worker of connection s reads and writes.
World(s) ==
    [ccd |-> current_call_data, tts_q |-> tts_q, transcript_q |-> transcript_q,
     buf |-> transcription_buffer, t |-> llm_task[s], turns |-> turn_log,
     of |-> s]

\* websocket_api.py 151-191: await log_call_message(message_type, content)
Log(w, message_type, content) == [w EXCEPT !.ccd = LoggedMessage(@, message_type, content)]

\* tts_q.put(text)
PutFirst(w, text) == [w EXCEPT !.tts_q = <<text>> \o @]

Put(w, text) == [w EXCEPT !.tts_q = Append(@, text)]

\* the history of the turn being processed takes the reply: whether it is the
\* last logged response and the last text of tts_q, and how many transcripts wait
Replied(w, reply) ==
    LET mine == {i \in DOMAIN w.turns : w.turns[i].of = w.of}
        last == CHOOSE i \in mine : \A j \in mine : j <= i
        responses == w.ccd.ai_responses
    IN  IF mine = {} THEN w
        ELSE [w EXCEPT !.turns[last].reply = <<reply>>,
                       !.turns[last].logged = /\ responses # <<>>
                                              /\ responses[Len(responses)].content = reply,
                       !.turns[last].queued = /\ w.tts_q # <<>>
                                              /\ w.tts_q[Len(w.tts_q)] = reply,
                       !.turns[last].behind = Len(w.transcript_q)]

\* websocket_api.py 467-471: one pass of the hold loop had it read the head of
\* the queue without taking it off
HoldIterationPeeking(w) ==
    LET w1 == IF w.transcript_q # <<>>
                THEN [w EXCEPT !.buf = Append(@, Head(w.transcript_q)),
                               !.t.hold_until = now + LISTEN_HOLD_MS \div 2]
                ELSE w
    IN  [w1 EXCEPT !.t.pc = "hold"]

\* websocket_api.py 467-471: one pass of the hold loop while the window is open
HoldIteration(w) ==
    LET w1 == IF w.transcript_q # <<>>
                THEN [w EXCEPT !.buf = Append(@, Head(w.transcript_q)),
                               !.transcript_q = Tail(@),
                               !.t.hold_until = now + LISTEN_HOLD_MS \div 2]
                ELSE w
    IN  [w1 EXCEPT !.t.pc = "hold"]

\* websocket_api.py 444: the worker's timers after a nudge
NudgedActive(t) == [t EXCEPT !.last_transcription_time = now, !.last_activity = now]

Nudged(t) == [t EXCEPT !.last_transcription_time = now]

\* websocket_api.py 439-461, 530: the top of the worker loop down to its next
\* suspension: nudge, idle end, deferral while the bot speaks, first dequeue
LoopTop(w) ==
    LET nudge == /\ now - w.t.last_transcription_time > NUDGE_AFTER_SILENCE_S * 1000
                 /\ ~bot_is_speaking
        w1 == IF nudge
                THEN [Put(Log(w, "bot", NudgePrompt), NudgePrompt) EXCEPT !.t = Nudged(@)]
                ELSE w
        idle == /\ now - w1.t.last_activity > END_AFTER_IDLE_S * 1000
                /\ w1.t.session_started
    IN  IF idle
          THEN [Put(Log(w1, "exit", ExitMessage), ExitMessage)
                  EXCEPT !.t.pc = "exit_sleep", !.t.wake_at = now + HANGUP_DELAY_MS]
        ELSE IF w1.transcript_q # <<>> /\ ~bot_is_speaking
          THEN HoldIteration([w1 EXCEPT !.buf = Append(@, Head(w1.transcript_q)),
                                        !.transcript_q = Tail(@),
                                        !.t.first_at = now,
                                        !.t.hold_until = now + LISTEN_HOLD_MS])
        ELSE [w1 EXCEPT !.t.pc = "loop"]

\* websocket_api.py 473-501: the window has closed; the fragments become the
\* user turn, which ends the call on an exit intent and otherwise goes to the
\* Response Generator
FormTurn(w) ==
    LET fragments == Fragments(w.buf)
        user_text == Join(fragments)
        w1 == [w EXCEPT !.buf = <<>>, !.t.hold_until = 0, !.t.first_at = -1]
        w2 == [Log(w1, "user", user_text)
                 EXCEPT !.t.last_activity = now,
                        !.t.last_transcription_time = now,
                        !.t.session_started = TRUE,
                        !.turns = Append(@, [of |-> w.of, user |-> user_text,
                                             reply |-> <<>>, logged |-> FALSE,
                                             queued |-> FALSE, behind |-> 0,
                                             cause |-> NoneVal])]
    IN  IF fragments = <<>>
          THEN LoopTop(w1)
        ELSE IF is_exit_intent(fragments)
          THEN [Replied(Put(Log(w2, "exit", ExitMessage), ExitMessage), ExitMessage)
                  EXCEPT !.t.pc = "exit_sleep", !.t.wake_at = now + HANGUP_DELAY_MS]
        ELSE [w2 EXCEPT !.t.pc = PcGenerating, !.t.gen_start = now]

\* websocket_api.py 467-474: the worker wakes in the hold loop
HoldResume(w) == IF now < w.t.hold_until THEN HoldIteration(w) ELSE FormTurn(w)

\* websocket_api.py 502-530: the reply is logged and queued, history grows
ReplyGiven(w, reply) ==
    [Replied(Put(Log(w, "bot", reply), reply), reply)
       EXCEPT !.t.pc = "loop", !.t.gen_start = 0, !.t.history = HistoryAfterTurn(@)]

\* websocket_api.py 453-455, 492-494: after the hangup the worker starts over
AfterHangup(w) ==
    LoopTop([w EXCEPT !.t.session_started = FALSE, !.t.history = 0, !.t.wake_at = 0])

\* websocket_api.py 426-435: the task starts: greeting, then the loop
Started(w) ==
    LoopTop([Put(Log(w, "greeting", Greeting), Greeting)
               EXCEPT !.t.last_activity = now, !.t.last_transcription_time = now])

\* a step of the LLM worker of connection s leaves w
LlmWrites(s, w) ==
    /\ current_call_data' = w.ccd
    /\ tts_q' = w.tts_q
    /\ transcript_q' = w.transcript_q
    /\ transcription_buffer' = w.buf
    /\ llm_task' = [llm_task EXCEPT ![s] = w.t]
    /\ turn_log' = w.turns

\* the variables no step of the LLM worker writes, the connections aside
beyondLlm == <<dbConnected, calls, leads, clock, lastLog, lastLeadEvent, iaVars, restVars,
               now, piopiy_ws, audio_buffer, bot_speaking_until, dg_ws_client,
               handler, tts_task, ended, frames, heard_speaking, asr_sent, heard,
               last_text, voice>>

\* websocket_api.py 419-435: the LLM worker runs for the first time
LlmWorkerStarts(s) ==
    /\ llm_task[s].state = "running"
    /\ llm_task[s].pc = "start"
    /\ LlmWrites(s, Started(World(s)))
    /\ UNCHANGED <<beyondLlm, ws>>

\* websocket_api.py 437-461: the LLM worker wakes at the top of its loop
LlmWorkerLoop(s) ==
    /\ llm_task[s].state = "running"
    /\ llm_task[s].pc = "loop"
    /\ LlmWrites(s, LoopTop(World(s)))
    /\ UNCHANGED <<beyondLlm, ws>>

\* websocket_api.py 467-501: the LLM worker wakes in the hold loop
LlmWorkerHold(s) ==
    /\ llm_task[s].state = "running"
    /\ llm_task[s].pc = "hold"
    /\ LlmWrites(s, HoldResume(World(s)))
    /\ UNCHANGED <<beyondLlm, ws>>

\* qa_engine.py 187-195: the fixed replies of get_response without a client
\* and without an API key
NotConfiguredReply == "service not configured"

KeyNotConfiguredReply == "api key not configured"

\* qa_engine.py 227-233: _dynamic_fallback, which does not look at the error
DynamicFallback == "dynamic fallback"

\* how get_response finds the LLM: usable, answering with nothing but white
\* space, without client, without API key, or with an API that raises because
\* it rejects the key, cannot be reached, or fails otherwise
GetResponseConditions ==
    {"reply", "empty", "no_client", "no_key", "auth_rejected", "unreachable", "api_failed"}

\* qa_engine.py 183-225: get_response: the stripped content of the completion,
\* a fixed reply without client or key, and _dynamic_fallback for whatever
\* the API call raises
get_response(condition) ==
    CASE condition = "reply"     -> Answer
      [] condition = "empty"     -> ""
      [] condition = "no_client" -> NotConfiguredReply
      [] condition = "no_key"    -> KeyNotConfiguredReply
      [] OTHER                   -> DynamicFallback

\* websocket_api.py 498-521: the reply of a turn: what get_response returns,
\* or the worker's own sentence when the call raises in the worker
ReplyFor(outcome) ==
    IF outcome \in GetResponseConditions THEN get_response(outcome)
                                          ELSE ReplyOnFailure(outcome)

\* the history of the turn being processed takes the outcome of the Response
\* Generator call its reply came from
Caused(w, outcome) ==
    LET mine == {i \in DOMAIN w.turns : w.turns[i].of = w.of}
        last == CHOOSE i \in mine : \A j \in mine : j <= i
    IN  IF mine = {} THEN w ELSE [w EXCEPT !.turns[last].cause = outcome]

\* websocket_api.py 498-506, 512-521: the Response Generator call ends in time,
\* with a reply or by raising
LlmWorkerReplies(s, outcome) ==
    /\ llm_task[s].state = "running"
    /\ llm_task[s].pc = "generating"
    /\ now - llm_task[s].gen_start < LLM_TIMEOUT_MS
    /\ LlmWrites(s, Caused(ReplyGiven(World(s), ReplyFor(outcome)), outcome))
    /\ UNCHANGED <<beyondLlm, ws>>

\* websocket_api.py 498-501, 507-511: wait_for gives up after the timeout
LlmWorkerTimesOut(s) ==
    /\ llm_task[s].state = "running"
    /\ llm_task[s].pc = "generating"
    /\ now - llm_task[s].gen_start >= LLM_TIMEOUT_MS
    /\ LlmWrites(s, ReplyGiven(World(s), ReplyOnFailure("timeout")))
    /\ UNCHANGED <<beyondLlm, ws>>

\* websocket_api.py 378-385, 451-452, 490-491: the 3 s are over, trigger_call_hangup
\* closes the connection piopiy_ws refers to
LlmWorkerHangsUp(s) ==
    /\ llm_task[s].state = "running"
    /\ llm_task[s].pc = "exit_sleep"
    /\ now >= llm_task[s].wake_at
    /\ llm_task' = [llm_task EXCEPT ![s].pc = "closing_ws"]
    /\ ws' = IF piopiy_ws # NoneVal /\ ws[piopiy_ws] = "open"
               THEN [ws EXCEPT ![piopiy_ws] = "server_closed"]
               ELSE ws
    /\ UNCHANGED <<beyondLlm, current_call_data, tts_q, transcript_q, transcription_buffer,
                   turn_log>>

\* websocket_api.py 386-392, 453-455, 492-494: close() has returned or raised
LlmWorkerAfterHangup(s) ==
    /\ llm_task[s].state = "running"
    /\ llm_task[s].pc = "closing_ws"
    /\ LlmWrites(s, AfterHangup(World(s)))
    /\ UNCHANGED <<beyondLlm, ws>>

\* websocket_api.py 531-533: what an exception raised in the loop body leaves
\* of the worker had no handler caught it
RaisedOutOfWorker(t) == [NoLlmTask EXCEPT !.state = "failed"]

\* websocket_api.py 531-533: an exception raised in the loop body is caught,
\* the worker sleeps 0.1 s and goes back to the top of its loop
CaughtInWorker(t) == [t EXCEPT !.pc = "loop"]

\* websocket_api.py 437-533: the statement the worker resumes at raises; what
\* the pass had gathered stays where it is
LlmWorkerRaises(s) ==
    /\ llm_task[s].state = "running"
    /\ llm_task[s].pc \in {"loop", "hold"}
    /\ llm_task' = [llm_task EXCEPT ![s] = CaughtInWorker(@)]
    /\ UNCHANGED <<beyondLlm, ws, current_call_data, tts_q, transcript_q, transcription_buffer,
                   turn_log>>

(***************************************************************************)
(* Sessions: the TTS worker, cancellation, the endpoint, the environment   *)
(***************************************************************************)

\* task.cancel() on a task
Cancel(task) == IF task.state = "running" THEN [task EXCEPT !.state = "cancel_requested"] ELSE task

\* the variables no step of the TTS worker writes
beyondTts == <<storeVars, iaVars, restVars, now, piopiy_ws, transcript_q, transcription_buffer,
               audio_buffer, dg_ws_client, ws, handler, llm_task, ended, frames,
               heard_speaking, asr_sent, heard, turn_log, last_text>>

\* websocket_api.py 316-319: (text or "").strip() of the texts of the model
Cleaned(text) == IF text = " " THEN "" ELSE text

\* websocket_api.py 316-319: ultra_fast_tts had it posted whatever text it is given
SkippedNever(text) == FALSE

\* websocket_api.py 316-319: ultra_fast_tts returns None for empty or
\* whitespace text before it opens a client
Skipped(text) == Cleaned(text) = ""

\* websocket_api.py 399-407, 314-339: the TTS worker takes the next text and
\* posts it to the TTS service; for a text that is skipped it is back at its
\* sleep without a suspension in between
TtsWorkerDequeues(s) ==
    /\ tts_task[s].state = "running"
    /\ tts_task[s].pc = "idle"
    /\ tts_q # <<>>
    /\ tts_q' = Tail(tts_q)
    /\ IF Skipped(Head(tts_q))
         THEN UNCHANGED <<tts_task, voice>>
         ELSE /\ tts_task' = [tts_task EXCEPT ![s].pc = "synth", ![s].text = Head(tts_q)]
              /\ voice' = [voice EXCEPT !.posts = Append(@, Head(tts_q))]
    /\ UNCHANGED <<beyondTts, bot_speaking_until>>

\* websocket_api.py 407-414, 340-376: the synthesis ends with raw_len_bytes of
\* audio (0: none, after a response that is not 200 or has no audio, or an
\* exception); audio is sent on piopiy_ws and opens the speaking window
TtsWorkerSends(s, raw_len_bytes) ==
    /\ tts_task[s].state = "running"
    /\ tts_task[s].pc = "synth"
    /\ bot_speaking_until' = IF raw_len_bytes > 0 /\ piopiy_ws # NoneVal
                               THEN SpeakingUntil(raw_len_bytes)
                               ELSE bot_speaking_until
    /\ voice' = IF raw_len_bytes > 0 /\ piopiy_ws # NoneVal
                   THEN [voice EXCEPT !.sent = Append(@, tts_task[s].text),
                                      !.sizes = Append(@, raw_len_bytes)]
                   ELSE voice
    /\ tts_task' = [tts_task EXCEPT ![s].pc = "idle", ![s].text = ""]
    /\ UNCHANGED <<beyondTts, tts_q>>

\* websocket_api.py 397-417: CancelledError is raised at the await the TTS worker
\* is suspended in; its handlers catch Exception only, so the task ends
TtsCancelled(s) ==
    /\ tts_task[s].state = "cancel_requested"
    /\ tts_task' = [tts_task EXCEPT ![s] = [NoTtsTask EXCEPT !.state = "cancelled"]]
    /\ UNCHANGED <<beyondTts, tts_q, bot_speaking_until, voice>>

\* websocket_api.py 498-501: how asyncio.wait_for takes the cancellation of the
\* task awaiting it.  The interpreter is not fixed by the repository: wait_for
\* of CPython 3.12 lets CancelledError through at once; up to 3.11 it first
\* cancels and awaits the inner future, which takes a further pass of the loop,
\* and returns the result instead when the inner future is already done.
WaitForCancelOutcomes == {"cancelled", "unwinding", "result_returned"}

\* websocket_api.py 419-533: CancelledError is raised at the await the LLM worker
\* is suspended in
LlmCancelled(s) ==
    /\ llm_task[s].state = "cancel_requested"
    /\ \E o \in IF llm_task[s].pc = "generating" THEN WaitForCancelOutcomes ELSE {"cancelled"} :
         CASE o = "cancelled" ->
                /\ llm_task' = [llm_task EXCEPT ![s] = [NoLlmTask EXCEPT !.state = "cancelled"]]
                /\ UNCHANGED <<current_call_data, tts_q, transcript_q, transcription_buffer,
                               turn_log>>
           [] o = "unwinding" ->
                /\ llm_task' = [llm_task EXCEPT ![s].state = "unwinding"]
                /\ UNCHANGED <<current_call_data, tts_q, transcript_q, transcription_buffer,
                               turn_log>>
           [] OTHER ->
                LlmWrites(s, ReplyGiven([World(s) EXCEPT !.t.state = "running"], Answer))
    /\ UNCHANGED <<beyondLlm, ws>>

\* the inner future of wait_for is cancelled; CancelledError leaves the worker
LlmUnwound(s) ==
    /\ llm_task[s].state = "unwinding"
    /\ llm_task' = [llm_task EXCEPT ![s] = [NoLlmTask EXCEPT !.state = "cancelled"]]
    /\ UNCHANGED <<beyondLlm, ws, current_call_data, tts_q, transcript_q, transcription_buffer,
                   turn_log>>

\* the variables the endpoint leaves alone before its receive loop ends
beyondEndpoint == <<dbConnected, calls, leads, clock, lastLog, lastLeadEvent, iaVars, restVars,
                    now, transcript_q, tts_q, transcription_buffer, bot_speaking_until,
                    ended, heard, turn_log, last_text, voice>>

\* websocket_api.py 636-641: websocket_endpoint is called for a new connection
Connect(s) ==
    /\ handler[s] = "none"
    /\ piopiy_ws' = s
    /\ ws' = [ws EXCEPT ![s] = "open"]
    /\ handler' = [handler EXCEPT ![s] = "accepting"]
    /\ UNCHANGED <<beyondEndpoint, current_call_data, audio_buffer, dg_ws_client,
                   llm_task, tts_task, frames, heard_speaking, asr_sent>>

\* websocket_api.py 642-684: the connection is accepted; call tracking starts,
\* the two worker tasks are created, the ASR connection is started if there is none
AcceptedWith(s, query) ==
    /\ handler[s] = "accepting"
    /\ current_call_data' \in OpenedCallData(query[1], query[2], query[3])
    /\ tts_task' = [tts_task EXCEPT ![s] = [NoTtsTask EXCEPT !.state = "running"]]
    /\ llm_task' = [llm_task EXCEPT ![s] = [NoLlmTask EXCEPT !.state = "running"]]
    /\ dg_ws_client' = IF dg_ws_client = "none" THEN "connecting" ELSE dg_ws_client
    /\ handler' = [handler EXCEPT ![s] = "receiving"]
    /\ UNCHANGED <<beyondEndpoint, piopiy_ws, ws, audio_buffer, frames, heard_speaking, asr_sent>>

\* websocket_api.py 642-684: the connection is accepted with the query string
\* of its session
Accepted(s) == AcceptedWith(s, SessionQuery(s))

\* one element of audio_buffer stands for 4000 bytes of one frame
UnitsOf(bytes) == bytes \div 4000

\* the frames with a byte in a piece of buffer
FramesIn(buffer) == {buffer[i] : i \in DOMAIN buffer}

\* websocket_api.py 769-772: the chunk found the connection down had the rest of
\* the buffer been kept
NotConnectedKept(rest) == rest

\* websocket_api.py 769-772: the chunk found the connection down: it is gone and
\* audio_buffer.clear() drops the rest
NotConnected(rest) == <<>>

\* websocket_api.py 757-772: chunks of AUDIO_BUFFER_SIZE bytes leave the buffer
\* for the ASR connection; with the connection down the buffer is dropped
RECURSIVE SendChunks(_, _)
SendChunks(buffer, sent) ==
    IF Len(buffer) >= UnitsOf(AUDIO_BUFFER_SIZE)
      THEN IF dg_ws_client = "connected"
             THEN SendChunks(SubSeq(buffer, UnitsOf(AUDIO_BUFFER_SIZE) + 1, Len(buffer)),
                             sent \cup FramesIn(SubSeq(buffer, 1, UnitsOf(AUDIO_BUFFER_SIZE))))
             ELSE [buffer |-> NotConnected(SubSeq(buffer, UnitsOf(AUDIO_BUFFER_SIZE) + 1, Len(buffer))),
                   sent |-> sent]
      ELSE [buffer |-> buffer, sent |-> sent]

\* websocket_api.py 751-754: what a frame received while the bot speaks leaves
\* of the buffer
KeptWhileSpeaking(buffer, incoming) == buffer \o incoming

DroppedWhileSpeaking(buffer, incoming) == <<>>

\* websocket_api.py 747-775: a binary frame of size bytes is received
ReceiveBytes(s, size, limit) ==
    LET frame    == frames + 1
        incoming == [i \in 1..UnitsOf(size) |-> frame]
        r        == SendChunks(audio_buffer \o incoming, asr_sent)
    IN  /\ handler[s] = "receiving"
        /\ ws[s] = "open"
        /\ frames < limit
        /\ frames' = frame
        /\ IF bot_is_speaking
             THEN /\ audio_buffer' = DroppedWhileSpeaking(audio_buffer, incoming)
                  /\ heard_speaking' = heard_speaking \cup {frame}
                  /\ asr_sent' = asr_sent
             ELSE /\ audio_buffer' = r.buffer
                  /\ heard_speaking' = heard_speaking
                  /\ asr_sent' = r.sent
        /\ UNCHANGED <<beyondEndpoint, current_call_data, piopiy_ws, ws, dg_ws_client,
                       handler, llm_task, tts_task>>

\* websocket_api.py 747-775: handling a binary frame received while the bot is
\* silent raises; the handler clears the buffer and receives on
ReceiveBytesFails(s, limit) ==
    /\ handler[s] = "receiving"
    /\ ws[s] = "open"
    /\ ~bot_is_speaking
    /\ frames < limit
    /\ frames' = frames + 1
    /\ audio_buffer' = <<>>
    /\ UNCHANGED <<beyondEndpoint, current_call_data, piopiy_ws, ws, dg_ws_client,
                   handler, llm_task, tts_task, heard_speaking, asr_sent>>

\* websocket_api.py 719-721, 731-733: the call context a JSON object holds: the
\* value of phone_number or phone, of lead_id, of session or sid, None for a
\* key it lacks
Context(phone, lead_id, session) == [phone |-> phone, lead_id |-> lead_id, session |-> session]

NoContext == Context(NoPhone, NoneVal, NoneVal)

\* Python truthiness of an optional phone number
TruthyPhone(p) == p # NoPhone /\ p.digits # ""

\* websocket_api.py 693-745: a text frame: a bare session id of 36 characters,
\* text that is no JSON, or a JSON object whose call context is under
\* extra_params, under meta, or at its top level
Frame(kind, text, extra_params, meta, flat) ==
    [kind |-> kind, text |-> text, extra_params |-> extra_params, meta |-> meta, flat |-> flat]

\* websocket_api.py 722-727, 734-739: the fields a context holds are written,
\* str() of a string being the string; the session falls back on fallback
MergedContext(ccd, c, fallback) ==
    LET sess == IF Truthy(c.session) THEN c.session ELSE fallback
    IN  [ccd EXCEPT !.phone_number    = IF TruthyPhone(c.phone) THEN c.phone ELSE @,
                    !.lead_id         = IF Truthy(c.lead_id) THEN c.lead_id ELSE @,
                    !.call_session_id = IF Truthy(sess) THEN sess ELSE @]

\* websocket_api.py 693-745: the tracking dicts a text frame may leave, for a
\* connection whose query string gave session_id
TextReceived(ccd, frame, session_id) ==
    CASE frame.kind = "session_id" ->
           LET c1     == [ccd EXCEPT !.call_session_id = frame.text]
               recent == IF dbConnected THEN RecentInitiatedBySession(calls, frame.text) ELSE {}
           IN  IF recent = {} THEN {c1}
               ELSE {[c1 EXCEPT !.phone_number = calls[i].phone_number,
                                !.lead_id = calls[i].lead_id] : i \in recent}
      [] frame.kind = "json" ->
           LET c1   == IF frame.extra_params # <<>>
                         THEN MergedContext(ccd, frame.extra_params[1], NoneVal)
                         ELSE ccd
               meta == IF frame.meta # <<>> THEN frame.meta[1] ELSE frame.flat
           IN  {MergedContext(c1, meta, session_id)}
      [] OTHER -> {ccd}

\* websocket_api.py 692-745: a text frame is received; an error in handling it
\* is caught inside the loop
ReceiveText(s, frame) ==
    /\ handler[s] = "receiving"
    /\ ws[s] = "open"
    /\ current_call_data' \in TextReceived(current_call_data, frame, SessionQuery(s)[3])
    /\ last_text' = <<[of |-> s, frame |-> frame, before |-> current_call_data]>>
    /\ UNCHANGED <<dbConnected, calls, leads, clock, lastLog, lastLeadEvent, iaVars, restVars,
                   now, transcript_q, tts_q, transcription_buffer, bot_speaking_until,
                   ended, heard, turn_log, piopiy_ws, ws, audio_buffer, dg_ws_client,
                   handler, llm_task, tts_task, frames, heard_speaking, asr_sent, voice>>

\* websocket_api.py 787-792: the finally block after the flush down to "await
\* tts_task": end_call_tracking, cancel() on both tasks
EndSession(s) ==
    /\ EndCallTrackingWrites
    /\ ended' = [ended EXCEPT ![s] = @ + 1]
    /\ tts_task' = [tts_task EXCEPT ![s] = Cancel(@)]
    /\ llm_task' = [llm_task EXCEPT ![s] = Cancel(@)]
    /\ handler' = [handler EXCEPT ![s] = "await_tts"]

\* websocket_api.py 778-792: the receive loop is left for the finally block.  With
\* audio to flush the handler is suspended in run_in_executor; with none it goes
\* on to "await tts_task" without a suspension.
LeaveLoop(s) ==
    IF audio_buffer # <<>> /\ dg_ws_client = "connected"
      THEN /\ handler' = [handler EXCEPT ![s] = "flushing"]
           /\ UNCHANGED <<calls, leads, lastLog, current_call_data, ended, tts_task, llm_task>>
      ELSE EndSession(s)

\* the variables the finally block leaves alone, the connections aside
beyondFinally == <<dbConnected, clock, lastLeadEvent, iaVars, restVars, now, piopiy_ws, transcript_q, tts_q,
                   transcription_buffer, audio_buffer, bot_speaking_until, dg_ws_client,
                   frames, heard_speaking, heard, turn_log, last_text, voice>>

\* websocket_api.py 688-691: receive() returns the disconnect message
ReceiveDisconnect(s) ==
    /\ handler[s] = "receiving"
    /\ ws[s] \in {"remote_closed", "server_closed"}
    /\ LeaveLoop(s)
    /\ UNCHANGED <<beyondFinally, ws, asr_sent>>

\* websocket_api.py 776-778: whether the finally block runs when the receive
\* loop ends for a cause
FinallyRunsOnDisconnectOnly(cause) == cause = "disconnect"

FinallyRuns(cause) == TRUE

\* websocket_api.py 688, 776-777: receive() raises
ReceiveError(s) ==
    /\ handler[s] = "receiving"
    /\ ws[s] = "open"
    /\ ws' = [ws EXCEPT ![s] = "broken"]
    /\ IF FinallyRuns("error")
         THEN LeaveLoop(s)
         ELSE /\ handler' = [handler EXCEPT ![s] = "returned"]
              /\ UNCHANGED <<calls, leads, lastLog, current_call_data, ended, tts_task, llm_task>>
    /\ UNCHANGED <<beyondFinally, asr_sent>>

\* websocket_api.py 779-792: the audio left in the buffer is converted and sent
\* to the ASR connection if that is still up; the finally block goes on.  No
\* other handler writes audio_buffer while this one is suspended.
Flushed(s) ==
    /\ handler[s] = "flushing"
    /\ asr_sent' = IF dg_ws_client = "connected"
                     THEN asr_sent \cup FramesIn(audio_buffer) ELSE asr_sent
    /\ EndSession(s)
    /\ UNCHANGED <<beyondFinally, ws>>

\* websocket_api.py 792-798: "await tts_task" raises CancelledError once the TTS
\* task has ended, which skips "await llm_task"; the globals are cleared and the
\* endpoint returns.  The loop runs the step cancel() scheduled for the LLM
\* task before it resumes the endpoint.
Return(s) ==
    /\ handler[s] = "await_tts"
    /\ tts_task[s].state = "cancelled"
    /\ llm_task[s].state # "cancel_requested"
    /\ piopiy_ws' = NoneVal
    /\ audio_buffer' = <<>>
    /\ transcription_buffer' = <<>>
    /\ handler' = [handler EXCEPT ![s] = "returned"]
    /\ UNCHANGED <<storeVars, iaVars, restVars, now, transcript_q, tts_q, bot_speaking_until, dg_ws_client,
                   ws, llm_task, tts_task, ended, frames, heard_speaking, asr_sent, heard,
                   turn_log, last_text, voice>>

\* the variables only the endpoint and the workers write
beyondEnvironment == <<dbConnected, calls, leads, lastLog, lastLeadEvent, current_call_data, iaVars, restVars,
                       piopiy_ws, tts_q, transcription_buffer, audio_buffer, bot_speaking_until,
                       handler, llm_task, tts_task, ended, frames, heard_speaking, asr_sent,
                       turn_log, last_text, voice>>

\* the remote side closes a connection
RemoteDisconnect(s) ==
    /\ handler[s] = "receiving"
    /\ ws[s] = "open"
    /\ ws' = [ws EXCEPT ![s] = "remote_closed"]
    /\ UNCHANGED <<beyondEnvironment, now, clock, transcript_q, dg_ws_client, heard>>

\* websocket_api.py 541-552: the ASR connection opens
DeepgramOpens ==
    /\ dg_ws_client \in {"connecting", "down"}
    /\ dg_ws_client' = "connected"
    /\ UNCHANGED <<beyondEnvironment, now, clock, transcript_q, ws, heard>>

\* websocket_api.py 583-589: the ASR connection fails
DeepgramCloses ==
    /\ dg_ws_client = "connected"
    /\ dg_ws_client' = "down"
    /\ UNCHANGED <<beyondEnvironment, now, clock, transcript_q, ws, heard>>

\* websocket_api.py 556-568: what on_message reads of a message of the ASR: its
\* type, how many alternatives its channel lists, the transcript of the first
\* alternative, and which of the five finality keys hold a truthy value
AsrMessage(type, alternatives, transcript, flags) ==
    [type |-> type, alternatives |-> alternatives, transcript |-> transcript, flags |-> flags]

\* websocket_api.py 563-569: is_final had the test been left out
is_final_always(data) == TRUE

\* websocket_api.py 563-569: is_final, the disjunction of the five keys
is_final(data) ==
    \/ "is_final" \in data.flags
    \/ "speech_final" \in data.flags
    \/ "final" \in data.flags
    \/ "channel.is_final" \in data.flags
    \/ "alternative.final" \in data.flags

\* websocket_api.py 555-581: transcript_q after on_message(message), q before.
\* Text that is no JSON and an empty list of alternatives raise, which the
\* handler of line 580 catches.
Queued(q, data) ==
    IF data.type # "Results" \/ data.alternatives = 0
      THEN q
    ELSE IF data.transcript # "" /\ is_final(data) /\ ~bot_is_speaking
      THEN Append(q, data.transcript)
    ELSE q

\* websocket_api.py 554-581: on_message with any message of the ASR
DeepgramMessage(data, limit) ==
    /\ dg_ws_client = "connected"
    /\ heard < limit
    /\ heard' = heard + 1
    /\ transcript_q' = Queued(transcript_q, data)
    /\ UNCHANGED <<beyondEnvironment, now, clock, dg_ws_client, ws>>

\* websocket_api.py 554-581: on_message had it queued a final transcript
\* whether or not the bot speaks
on_message_unguarded(transcript, limit) ==
    /\ dg_ws_client = "connected"
    /\ heard < limit
    /\ heard' = heard + 1
    /\ transcript_q' = Append(transcript_q, transcript)
    /\ UNCHANGED <<beyondEnvironment, now, clock, dg_ws_client, ws>>

\* websocket_api.py 554-581: on_message with a final transcript; it is dropped
\* while the bot speaks
on_message(transcript, limit) ==
    /\ dg_ws_client = "connected"
    /\ heard < limit
    /\ heard' = heard + 1
    /\ transcript_q' = IF bot_is_speaking THEN transcript_q ELSE Append(transcript_q, transcript)
    /\ UNCHANGED <<beyondEnvironment, now, clock, dg_ws_client, ws>>

\* the times at which something changes by itself: the speaking window ends, a
\* hold window closes, a hangup delay or the LLM timeout is over, the silence
\* or the idle time of a worker exceeds its limit
Deadlines ==
    {bot_speaking_until}
    \cup {llm_task[s].hold_until : s \in {x \in Sessions : llm_task[x].pc = "hold"}}
    \cup {llm_task[s].wake_at : s \in {x \in Sessions : llm_task[x].pc = "exit_sleep"}}
    \cup {llm_task[s].gen_start + LLM_TIMEOUT_MS : s \in {x \in Sessions : llm_task[x].pc = "generating"}}
    \cup {llm_task[s].last_transcription_time + NUDGE_AFTER_SILENCE_S * 1000 + 1 :
            s \in {x \in Sessions : llm_task[x].state = "running" /\ llm_task[x].pc # "start"}}
    \cup {llm_task[s].last_activity + END_AFTER_IDLE_S * 1000 + 1 :
            s \in {x \in Sessions : llm_task[x].state = "running" /\ llm_task[x].session_started}}

\* time passes, up to the next deadline
Advance(horizon) ==
    /\ \E t \in Deadlines :
         /\ t > now
         /\ \A u \in Deadlines : u > now => t <= u
         /\ t <= horizon
         /\ now' = t
         /\ clock' = t \div 1000
    /\ UNCHANGED <<beyondEnvironment, transcript_q, dg_ws_client, ws, heard>>

(***************************************************************************)
(* One connection: the turns of a call                                     *)
(***************************************************************************)

\* latest time of a run with one connection, in milliseconds
TurnHorizonMs == 13000

\* most final transcripts the ASR delivers in a run
MaxTranscripts == 2

\* websocket_api.py 407: bytes of audio a synthesis returns
ReplyAudioBytes == 8000

InitSession == InitStore

NextTurn ==
    \/ Connect("A")
    \/ Accepted("A")
    \/ RemoteDisconnect("A")
    \/ ReceiveError("A")
    \/ ReceiveDisconnect("A")
    \/ Return("A")
    \/ LlmWorkerStarts("A")
    \/ LlmWorkerLoop("A")
    \/ LlmWorkerHold("A")
    \/ LlmWorkerReplies("A", "reply")
    \/ LlmWorkerTimesOut("A")
    \/ LlmWorkerHangsUp("A")
    \/ LlmWorkerAfterHangup("A")
    \/ TtsWorkerDequeues("A")
    \/ TtsWorkerSends("A", ReplyAudioBytes)
    \/ TtsCancelled("A")
    \/ LlmCancelled("A")
    \/ LlmUnwound("A")
    \/ \E t \in {"hello", "bye"} : on_message(t, MaxTranscripts)
    \/ DeepgramOpens
    \/ Advance(TurnHorizonMs)

SpecTurn == InitSession /\ [][NextTurn]_vars

\* C9: when websocket_endpoint has returned, both worker tasks of its connection
\* have ended.
C9_WorkersEndedOnReturn ==
    \A s \in Sessions :
        handler[s] = "returned" =>
            /\ tts_task[s].state = "cancelled"
            /\ llm_task[s].state = "cancelled"

\* C5: whenever the LLM worker takes a transcript off the transcript queue,
\* every user turn formed before has its reply logged and put on the TTS queue:
\* turns are processed one at a time, in arrival order.
C5_ReplyBeforeNextTurn ==
    [][Len(transcript_q') < Len(transcript_q) =>
          \A i \in DOMAIN turn_log :
              /\ turn_log[i].reply # <<>>
              /\ turn_log[i].logged
              /\ turn_log[i].queued]_vars

\* C5 witness: a second transcript waited in the queue while the first turn got
\* its reply, and became the second turn afterwards.
C5_Witness ==
    /\ Len(turn_log) = 2
    /\ turn_log[1].reply = <<Answer>>
    /\ turn_log[1].logged /\ turn_log[1].queued
    /\ turn_log[1].behind >= 1

\* C7: when the Response Generator call has not finished within the timeout,
\* the step of the LLM worker that follows logs the fixed fallback sentence as
\* the bot's reply and puts it on the TTS queue; the worker keeps running at
\* the top of its loop, and the connection and its handler are left as they were.
C7_TimeoutFallback ==
    [][\A s \in Sessions :
          ( /\ llm_task[s].state = "running"
            /\ llm_task[s].pc = "generating"
            /\ now - llm_task[s].gen_start >= LLM_TIMEOUT_MS
            /\ llm_task'[s].pc # "generating" )
          => /\ tts_q' = Append(tts_q, TimeoutFallback)
             /\ current_call_data'.ai_responses =
                  Append(current_call_data.ai_responses, [type |-> "bot", content |-> TimeoutFallback])
             /\ llm_task'[s].state = "running"
             /\ llm_task'[s].pc = "loop"
             /\ ws' = ws
             /\ handler' = handler]_vars

\* C7 witness: a turn was answered with the fallback sentence after the timeout
\* and the connection is still open, its handler receiving, its worker running.
C7_Witness ==
    \E s \in Sessions :
        /\ \E i \in DOMAIN turn_log :
              /\ turn_log[i].of = s
              /\ turn_log[i].reply = <<TimeoutFallback>>
              /\ turn_log[i].logged /\ turn_log[i].queued
        /\ now >= LLM_TIMEOUT_MS
        /\ ws[s] = "open"
        /\ handler[s] = "receiving"
        /\ llm_task[s].state = "running"

(***************************************************************************)
(* One connection: how it ends                                             *)
(***************************************************************************)

\* latest time of a run that follows a connection to its end, in milliseconds:
\* past the idle limit after a turn and the hangup delay
CloseHorizonMs == 64000

\* most transcripts the ASR delivers in such a run
MaxCloseTranscripts == 1

NextClose ==
    \/ Connect("A")
    \/ Accepted("A")
    \/ RemoteDisconnect("A")
    \/ ReceiveError("A")
    \/ ReceiveDisconnect("A")
    \/ Return("A")
    \/ LlmWorkerStarts("A")
    \/ LlmWorkerLoop("A")
    \/ LlmWorkerHold("A")
    \/ LlmWorkerReplies("A", "reply")
    \/ LlmWorkerTimesOut("A")
    \/ LlmWorkerHangsUp("A")
    \/ LlmWorkerAfterHangup("A")
    \/ TtsWorkerDequeues("A")
    \/ TtsWorkerSends("A", ReplyAudioBytes)
    \/ TtsCancelled("A")
    \/ LlmCancelled("A")
    \/ LlmUnwound("A")
    \/ \E t \in {"hello", "bye"} : on_message(t, MaxCloseTranscripts)
    \/ DeepgramOpens
    \/ Advance(CloseHorizonMs)

SpecClose == InitSession /\ [][NextClose]_vars

\* C3: end_call_tracking is invoked exactly once for every accepted connection:
\* never before the receive loop has ended, once when the handler has passed its
\* finally block, and never again, whether the connection ended by a remote
\* disconnect, by an error of receive() or by the bot's own hangup.
C3_FinalizedExactlyOnce ==
    \A s \in Sessions :
        /\ handler[s] \in {"none", "accepting", "receiving", "flushing"} => ended[s] = 0
        /\ handler[s] \in {"await_tts", "returned"} => ended[s] = 1

\* C3 witness: the caller was answered and then stayed silent beyond the idle
\* limit; the bot said its exit message and hung up, the handler of the
\* connection has returned and end_call_tracking ran once.
C3_Witness ==
    \E s \in Sessions :
        /\ ws[s] = "server_closed"
        /\ handler[s] = "returned"
        /\ ended[s] = 1
        /\ now > END_AFTER_IDLE_S * 1000
        /\ turn_log # <<>>
        /\ \A i \in DOMAIN turn_log : turn_log[i].reply = <<Answer>>

(***************************************************************************)
(* One connection: the caller's audio                                      *)
(***************************************************************************)

\* latest time of a run on the caller's audio, in milliseconds
AudioHorizonMs == 16000

\* most binary frames received in a run
MaxFrames == 3

NextAudio ==
    \/ Connect("A")
    \/ Accepted("A")
    \/ \E size \in {4000, 12000} : ReceiveBytes("A", size, MaxFrames)
    \/ RemoteDisconnect("A")
    \/ ReceiveDisconnect("A")
    \/ Flushed("A")
    \/ Return("A")
    \/ LlmWorkerStarts("A")
    \/ LlmWorkerLoop("A")
    \/ TtsWorkerDequeues("A")
    \/ TtsWorkerSends("A", ReplyAudioBytes)
    \/ TtsCancelled("A")
    \/ LlmCancelled("A")
    \/ DeepgramOpens
    \/ DeepgramCloses
    \/ Advance(AudioHorizonMs)

SpecAudio == InitSession /\ [][NextAudio]_vars

\* C4: no byte of a binary frame received while bot_is_speaking() is ever sent
\* to the ASR connection, and none waits in the audio buffer, from where a
\* later chunk or the flush on close would send it.
C4_NoBargeIn ==
    /\ heard_speaking \cap asr_sent = {}
    /\ heard_speaking \cap FramesIn(audio_buffer) = {}

\* C4 witness: a frame was sent to the ASR, the next arrived while the bot was
\* speaking, a later one was sent again, and the handler has flushed and returned.
C4_Witness ==
    /\ \E f \in heard_speaking :
          /\ \E g \in asr_sent : g < f
          /\ \E g \in asr_sent : g > f
    /\ handler["A"] = "returned"

(***************************************************************************)
(* Two connections at a time                                               *)
(***************************************************************************)

NextConn ==
    \/ \E s \in Sessions : Connect(s)
    \/ \E s \in Sessions : Accepted(s)
    \/ \E s \in Sessions : RemoteDisconnect(s)
    \/ \E s \in Sessions : ReceiveError(s)
    \/ \E s \in Sessions : ReceiveDisconnect(s)
    \/ \E s \in Sessions : Return(s)
    \/ \E s \in Sessions : LlmWorkerStarts(s)
    \/ \E s \in Sessions : LlmWorkerLoop(s)
    \/ \E s \in Sessions : TtsWorkerDequeues(s)
    \/ \E s \in Sessions : TtsWorkerSends(s, ReplyAudioBytes)
    \/ \E s \in Sessions : TtsCancelled(s)
    \/ \E s \in Sessions : LlmCancelled(s)

SpecConn == InitSession /\ [][NextConn]_vars

\* C8: two connections open at the same time do not affect each other: while a
\* connection is in its receive loop the tracked call data is the data of that
\* connection's call and the connection audio is sent on is that connection,
\* whatever the other connection does, closing included.
C8_SessionsIndependent ==
    \A s \in Sessions :
        handler[s] = "receiving" /\ ws[s] = "open" =>
            /\ current_call_data.call_session_id = SessionQuery(s)[3]
            /\ piopiy_ws = s

(***************************************************************************)
(* One connection: the hold window                                         *)
(***************************************************************************)

\* latest time of a run on the hold window, in milliseconds
HoldHorizonMs == 2000

\* most transcripts the ASR delivers in such a run
MaxHoldTranscripts == 3

NextHold ==
    \/ Connect("A")
    \/ Accepted("A")
    \/ DeepgramOpens
    \/ \E t \in {"hello", " there ", " "} : on_message(t, MaxHoldTranscripts)
    \/ LlmWorkerStarts("A")
    \/ LlmWorkerLoop("A")
    \/ LlmWorkerHold("A")
    \/ LlmWorkerReplies("A", "reply")
    \/ TtsWorkerDequeues("A")
    \/ TtsWorkerSends("A", ReplyAudioBytes)
    \/ Advance(HoldHorizonMs)

SpecHold == InitSession /\ [][NextHold]_vars

\* the words of the gathered transcripts: each without the white space at its
\* ends, the empty ones left out
C11_Words(gathered) ==
    LET bare(t) == IF t = " " THEN "" ELSE IF t = " there " THEN "there" ELSE t
        all == [i \in DOMAIN gathered |-> bare(gathered[i])]
    IN  SelectSeq(all, LAMBDA x : x # "")

\* words in order with one space between neighbours, built from the left
RECURSIVE C11_Spaced(_, _)
C11_Spaced(done, rest) ==
    IF rest = <<>> THEN done
    ELSE C11_Spaced(IF done = "" THEN Head(rest) ELSE done \o " " \o Head(rest), Tail(rest))

\* C11: the transcripts the LLM worker gathers while the hold window of a turn
\* is open leave the transcript queue in arrival order (a window that closes on
\* blank transcripts alone forms no turn and the gathering starts afresh); when
\* the window closes they form one user turn, their words joined in that order
\* by single spaces;
\* the turn is logged as one user message, and the Response Generator is called
\* only when a turn is formed, once for the turn.
C11_HoldCombines ==
    [][/\ Len(transcript_q') < Len(transcript_q) =>
             \E k \in 1..Len(transcript_q) :
                 /\ transcript_q' = SubSeq(transcript_q, k + 1, Len(transcript_q))
                 /\ \/ transcription_buffer' = transcription_buffer \o SubSeq(transcript_q, 1, k)
                    \/ /\ C11_Words(transcription_buffer) = <<>>
                       /\ transcription_buffer' = SubSeq(transcript_q, 1, k)
       /\ Len(turn_log') > Len(turn_log) =>
             /\ Len(turn_log') = Len(turn_log) + 1
             /\ turn_log'[Len(turn_log')].user = C11_Spaced("", C11_Words(transcription_buffer))
             /\ transcription_buffer' = <<>>
             /\ current_call_data'.transcription =
                    Append(current_call_data.transcription,
                           [type |-> "user", content |-> turn_log'[Len(turn_log')].user])
             /\ \E s \in Sessions : /\ llm_task[s].pc # "generating"
                                     /\ llm_task'[s].pc = "generating"
       /\ \A s \in Sessions :
             llm_task[s].pc # "generating" /\ llm_task'[s].pc = "generating" =>
                 Len(turn_log') = Len(turn_log) + 1
       /\ Len(turn_log') = Len(turn_log) =>
             current_call_data'.transcription = current_call_data.transcription]_vars

\* C11 witness: "hello" and " there " arrived within one hold window, with a
\* blank transcript between them, and became the one user turn "hello there",
\* logged as the only user message and answered once.
C11_Witness ==
    /\ Len(turn_log) = 1
    /\ turn_log[1].user = "hello there"
    /\ turn_log[1].reply = <<Answer>>
    /\ heard = 3
    /\ transcript_q = <<>>
    /\ current_call_data.transcription = <<[type |-> "user", content |-> "hello there"]>>

(***************************************************************************)
(* One connection: the caller takes leave                                  *)
(***************************************************************************)

\* latest time of a run in which the caller takes leave, in milliseconds
ExitHorizonMs == 5000

\* most transcripts the ASR delivers in such a run
MaxExitTranscripts == 2

\* what the caller says in such a run
ExitSpeech == {"hello", "Goodbye", "Thank", "you"}

NextExit ==
    \/ Connect("A")
    \/ Accepted("A")
    \/ DeepgramOpens
    \/ \E t \in ExitSpeech : on_message(t, MaxExitTranscripts)
    \/ LlmWorkerStarts("A")
    \/ LlmWorkerLoop("A")
    \/ LlmWorkerHold("A")
    \/ LlmWorkerReplies("A", "reply")
    \/ LlmWorkerHangsUp("A")
    \/ LlmWorkerAfterHangup("A")
    \/ TtsWorkerDequeues("A")
    \/ TtsWorkerSends("A", ReplyAudioBytes)
    \/ ReceiveDisconnect("A")
    \/ TtsCancelled("A")
    \/ LlmCancelled("A")
    \/ LlmUnwound("A")
    \/ Return("A")
    \/ Advance(ExitHorizonMs)

SpecExit == InitSession /\ [][NextExit]_vars

\* the user turns of ExitSpeech in which an exit keyword occurs, whatever the
\* case of its letters: "goodbye" anywhere, or "thank you"
C12_ExitTurns ==
    LET said == UNION {[1..n -> ExitSpeech] : n \in 1..MaxExitTranscripts}
        leave(q) == \/ \E k \in DOMAIN q : q[k] = "Goodbye"
                    \/ \E k \in DOMAIN q : k < Len(q) /\ q[k] = "Thank" /\ q[k + 1] = "you"
    IN  {C11_Spaced("", q) : q \in {x \in said : leave(x)}}

\* C12: a user turn that holds an exit keyword puts the exit message on the TTS
\* queue and never reaches the Response Generator, any other turn does; the
\* server closes the connection only from the sleep that follows the exit
\* message, 3 s or more after it was queued; and once the handler of a
\* connection the server closed has finalized, the database, when connected,
\* holds the call record of the session with status completed.
C12_ExitIntentEndsCall ==
    [][\A s \in Sessions :
          /\ Len(turn_log') > Len(turn_log) /\ turn_log'[Len(turn_log')].of = s =>
                IF turn_log'[Len(turn_log')].user \in C12_ExitTurns
                  THEN /\ tts_q' = Append(tts_q, ExitMessage)
                       /\ turn_log'[Len(turn_log')].reply = <<ExitMessage>>
                       /\ llm_task'[s].pc = "exit_sleep"
                       /\ llm_task'[s].wake_at = now + 3000
                  ELSE /\ tts_q' = tts_q
                       /\ llm_task'[s].pc = "generating"
          /\ ws[s] = "open" /\ ws'[s] = "server_closed" =>
                /\ llm_task[s].pc = "exit_sleep"
                /\ now >= llm_task[s].wake_at
          /\ ws'[s] = "server_closed" /\ handler'[s] \in {"await_tts", "returned"} /\ dbConnected =>
                \E i \in DOMAIN calls' :
                    /\ calls'[i].call_session_id = SessionQuery(s)[3]
                    /\ calls'[i].status = "completed"]_vars

\* C12 witness: the caller said "Thank" and "you" within one hold window; the bot
\* said its exit message, hung up 3 s later, and the handler has returned with
\* the completed record of the session written.
C12_Witness ==
    /\ Len(turn_log) = 1
    /\ turn_log[1].user = "Thank you"
    /\ turn_log[1].reply = <<ExitMessage>>
    /\ ws["A"] = "server_closed"
    /\ handler["A"] = "returned"
    /\ now >= 3000
    /\ \E i \in DOMAIN calls : calls[i].call_session_id = "s1" /\ calls[i].status = "completed"

(***************************************************************************)
(* One connection: the caller stays silent                                 *)
(***************************************************************************)

\* latest time of a run in which the caller stays silent, in milliseconds: past
\* the idle limit after a turn and the hangup delay
SilenceHorizonMs == 64000

\* most transcripts the ASR delivers in such a run
MaxSilenceTranscripts == 1

NextSilence ==
    \/ Connect("A")
    \/ Accepted("A")
    \/ DeepgramOpens
    \/ on_message("hello", MaxSilenceTranscripts)
    \/ LlmWorkerStarts("A")
    \/ LlmWorkerLoop("A")
    \/ LlmWorkerHold("A")
    \/ LlmWorkerReplies("A", "reply")
    \/ LlmWorkerTimesOut("A")
    \/ LlmWorkerHangsUp("A")
    \/ LlmWorkerAfterHangup("A")
    \/ TtsWorkerDequeues("A")
    \/ TtsWorkerSends("A", ReplyAudioBytes)
    \/ Advance(SilenceHorizonMs)

SpecSilence == InitSession /\ [][NextSilence]_vars

\* the nudge prompts among the logged responses of the call
NudgesLogged ==
    Cardinality({i \in DOMAIN current_call_data.ai_responses :
                    current_call_data.ai_responses[i].content = NudgePrompt})

\* C13: on any session whose connection is open, a pass of the LLM worker's
\* loop made more than END_AFTER_IDLE_S seconds after the last transcript it
\* processed (or after its start, when there was none) ends the session: the
\* exit message is queued and the worker goes on to the hangup.
C13_IdleEndsAnySession ==
    [][\A s \in Sessions :
          ( /\ ws[s] = "open"
            /\ llm_task[s].state = "running"
            /\ llm_task[s].pc = "loop"
            /\ now - llm_task[s].last_activity > END_AFTER_IDLE_S * 1000
            /\ llm_task'[s] # llm_task[s] )
          => /\ tts_q' # <<>>
             /\ tts_q'[Len(tts_q')] = ExitMessage
             /\ llm_task'[s].pc = "exit_sleep"]_vars

\* C14: on a session in which a user turn was formed, a pass of the LLM
\* worker's loop made more than END_AFTER_IDLE_S seconds after the last user
\* turn queues the exit message and goes on to the hangup, which closes the
\* connection after the hangup delay; a nudge leaves the time of the last user
\* turn as it was, so nudges do not put the end off.
C14_IdleEndsEngagedSession ==
    [][\A s \in Sessions :
          /\ ( /\ ws[s] = "open"
                /\ llm_task[s].state = "running"
                /\ llm_task[s].pc = "loop"
                /\ llm_task[s].session_started
                /\ now - llm_task[s].last_activity > 60 * 1000
                /\ llm_task'[s] # llm_task[s] )
              => /\ tts_q' # <<>>
                 /\ tts_q'[Len(tts_q')] = ExitMessage
                 /\ llm_task'[s].pc = "exit_sleep"
                 /\ llm_task'[s].wake_at = now + 3000
          /\ ( /\ ws[s] = "open"
                /\ llm_task[s].pc = "exit_sleep"
                /\ llm_task'[s].pc # "exit_sleep" )
              => /\ now >= llm_task[s].wake_at
                 /\ ws'[s] = "server_closed"
          /\ NudgesLogged' > NudgesLogged
              => llm_task'[s].last_activity = llm_task[s].last_activity]_vars

\* C14 witness: the caller spoke once and was answered, then stayed silent;
\* nudges were spoken in the meantime, and more than 60 s after the turn the
\* bot queued its exit message and hung up.
C14_Witness ==
    /\ heard = 1
    /\ Len(turn_log) = 1
    /\ turn_log[1].reply = <<Answer>>
    /\ NudgesLogged >= 3
    /\ ws["A"] = "server_closed"
    /\ now > 60000
    /\ tts_q # <<>> /\ tts_q[Len(tts_q)] = ExitMessage

\* C15: in a stretch of time in which the ASR delivers no transcript the nudge
\* prompt is emitted once: a call has at most one nudge more than transcripts
\* delivered.
C15_OneNudgePerSilence == NudgesLogged <= heard + 1

(***************************************************************************)
(* One connection: errors while the call is served                         *)
(***************************************************************************)

\* latest time of a run with errors, in milliseconds
FaultHorizonMs == 4000

\* most final transcripts the ASR delivers in a run with errors
MaxFaultTranscripts == 1

\* most binary frames received in a run with errors
MaxFaultFrames == 1

\* text frames of a run with errors: text that is no JSON
FaultFrames == {Frame("not_json", "", <<>>, <<>>, NoContext)}

NextFault ==
    \/ Connect("A")
    \/ Accepted("A")
    \/ DeepgramOpens
    \/ \E t \in {"hello", "bye"} : on_message(t, MaxFaultTranscripts)
    \/ LlmWorkerStarts("A")
    \/ LlmWorkerLoop("A")
    \/ LlmWorkerHold("A")
    \/ \E o \in {"reply", "error"} : LlmWorkerReplies("A", o)
    \/ LlmWorkerRaises("A")
    \/ LlmWorkerHangsUp("A")
    \/ LlmWorkerAfterHangup("A")
    \/ TtsWorkerDequeues("A")
    \/ \E b \in {0, ReplyAudioBytes} : TtsWorkerSends("A", b)
    \/ ReceiveBytes("A", 4000, MaxFaultFrames)
    \/ ReceiveBytesFails("A", MaxFaultFrames)
    \/ \E f \in FaultFrames : ReceiveText("A", f)
    \/ RemoteDisconnect("A")
    \/ ReceiveDisconnect("A")
    \/ Advance(FaultHorizonMs)

SpecFault == InitSession /\ [][NextFault]_vars

\* C16: an exception while a transcript is handled, a reply generated, audio
\* synthesized or sent, or a frame handled ends nothing.  In every step: a
\* worker task that was running is running afterwards unless the endpoint
\* cancels it on leaving its receive loop; the endpoint leaves its receive loop
\* only once the connection is closed; and the server closes the connection
\* only when a worker's hangup delay is over.
C16_ErrorsEndNothing ==
    [][\A s \in Sessions :
         /\ (llm_task[s].state = "running" /\ llm_task'[s].state # "running")
              => handler[s] = "receiving" /\ handler'[s] # "receiving"
         /\ (tts_task[s].state = "running" /\ tts_task'[s].state # "running")
              => handler[s] = "receiving" /\ handler'[s] # "receiving"
         /\ (handler[s] = "receiving" /\ handler'[s] # "receiving")
              => ws[s] \in {"remote_closed", "server_closed"}
         /\ (ws[s] = "open" /\ ws'[s] # "open")
              => \/ ws'[s] = "remote_closed"
                 \/ /\ ws'[s] = "server_closed"
                    /\ \E x \in Sessions : /\ llm_task[x].pc = "exit_sleep"
                                           /\ llm_task'[x].pc = "closing_ws"]_vars

\* C16 witness: the worker raised while it gathered a turn, a binary frame and
\* a text frame could not be handled, and the call goes on
C16_Witness ==
    /\ handler["A"] = "receiving"
    /\ ws["A"] = "open"
    /\ llm_task["A"].state = "running"
    /\ tts_task["A"].state = "running"
    /\ llm_task["A"].pc = "loop"
    /\ transcription_buffer # <<>>
    /\ frames = 1
    /\ audio_buffer = <<>>
    /\ heard_speaking = {}
    /\ last_text # NoEvent
    /\ last_text[1].frame.kind = "not_json"

(***************************************************************************)
(* One connection: the call record at the end of the session               *)
(***************************************************************************)

\* latest time of a run that ends a session, in milliseconds
EndHorizonMs == 2000

\* most final transcripts the ASR delivers in a run that ends a session
MaxEndTranscripts == 1

\* websocket_api.py 647-655: the query string of a session that names the lead
\* and the phone but no session id
LeadQuery == <<Phone(TRUE, "d1"), "L1", NoneVal>>

NextEnd ==
    \/ CallLead("L1", "s1")
    \/ Connect("A")
    \/ AcceptedWith("A", LeadQuery)
    \/ DeepgramOpens
    \/ on_message("hello", MaxEndTranscripts)
    \/ LlmWorkerStarts("A")
    \/ LlmWorkerLoop("A")
    \/ LlmWorkerHold("A")
    \/ LlmWorkerReplies("A", "reply")
    \/ TtsWorkerDequeues("A")
    \/ TtsWorkerSends("A", ReplyAudioBytes)
    \/ RemoteDisconnect("A")
    \/ ReceiveDisconnect("A")
    \/ TtsCancelled("A")
    \/ LlmCancelled("A")
    \/ LlmUnwound("A")
    \/ Return("A")
    \/ Advance(EndHorizonMs)

SpecEnd == InitSession /\ [][NextEnd]_vars

\* C17: whatever becomes of the write of the call record, the step in which a
\* handler runs end_call_tracking on a call with something to save leaves the
\* tracking dict reset and takes the handler on to cancel() on both workers;
\* a handler that has returned has released the connection.
C17_WriteFailureTolerated ==
    [][\A s \in Sessions :
         /\ (ended'[s] = ended[s] + 1 /\ ~NothingToSave(current_call_data))
              => /\ current_call_data' = EmptyCallData
                 /\ handler'[s] = "await_tts"
                 /\ llm_task'[s].state # "running"
                 /\ tts_task'[s].state # "running"
         /\ handler'[s] = "returned" => piopiy_ws' = NoneVal]_vars

\* C17 witness: the update of the initiated record raised, so the record is
\* still initiated and log_call added a record next to it; the handler has
\* returned with the tracking dict reset
C17_Witness ==
    /\ handler["A"] = "returned"
    /\ ended["A"] = 1
    /\ current_call_data = EmptyCallData
    /\ piopiy_ws = NoneVal
    /\ Len(calls) = 2
    /\ calls[1].status = "initiated"
    /\ calls[2].status = "completed"
    /\ calls[2].transcription # <<>>


(***************************************************************************)
(* One connection: the call context in text frames                         *)
(***************************************************************************)

\* text frames with call context: under extra_params, under meta, at the top
\* level, and a bare session id
MetaFrames ==
    {Frame("json", "", <<Context(Phone(TRUE, "d3"), NoneVal, NoneVal)>>, <<>>, NoContext),
     Frame("json", "", <<Context(NoPhone, NoneVal, "s2")>>, <<>>, NoContext),
     Frame("json", "", <<>>, <<Context(NoPhone, "L2", NoneVal)>>, NoContext),
     Frame("json", "", <<>>, <<Context(NoPhone, NoneVal, "s2")>>, NoContext),
     Frame("json", "", <<>>, <<>>, Context(Phone(TRUE, "d3"), "L2", "s2")),
     Frame("session_id", "s2", <<>>, <<>>, NoContext)}

NextMeta ==
    \/ CallLead("L1", "s2")
    \/ Connect("A")
    \/ Accepted("A")
    \/ \E f \in MetaFrames : ReceiveText("A", f)
    \/ RemoteDisconnect("A")
    \/ ReceiveDisconnect("A")

SpecMeta == InitSession /\ [][NextMeta]_vars

\* the contexts a JSON frame holds
ContextsIn(frame) ==
    (IF frame.extra_params # <<>> THEN {frame.extra_params[1]} ELSE {})
    \cup (IF frame.meta # <<>> THEN {frame.meta[1]} ELSE {frame.flat})

\* C18: a metadata text frame in either shape changes only those of
\* phone_number, lead_id and call_session_id that it holds: a field the frame
\* lacks has the same value in the tracking dict after the frame as before it.
C18_OnlyPresentFieldsChange ==
    [][(last_text' # last_text /\ last_text'[1].frame.kind = "json")
         => LET held == ContextsIn(last_text'[1].frame)
            IN  /\ (\A c \in held : ~TruthyPhone(c.phone))
                     => current_call_data'.phone_number = current_call_data.phone_number
                /\ (\A c \in held : ~Truthy(c.lead_id))
                     => current_call_data'.lead_id = current_call_data.lead_id
                /\ (\A c \in held : ~Truthy(c.session))
                     => current_call_data'.call_session_id = current_call_data.call_session_id]_vars

(***************************************************************************)
(* One connection: the caller speaks while the bot speaks                  *)
(***************************************************************************)

\* latest time of a run in which caller and bot speak, in milliseconds
SpeakHorizonMs == 2000

\* most final transcripts the ASR delivers in such a run
MaxSpeakTranscripts == 2

NextSpeak ==
    \/ Connect("A")
    \/ Accepted("A")
    \/ DeepgramOpens
    \/ on_message("hello", MaxSpeakTranscripts)
    \/ LlmWorkerStarts("A")
    \/ LlmWorkerLoop("A")
    \/ LlmWorkerHold("A")
    \/ LlmWorkerReplies("A", "reply")
    \/ TtsWorkerDequeues("A")
    \/ TtsWorkerSends("A", ReplyAudioBytes)
    \/ Advance(SpeakHorizonMs)

SpecSpeak == InitSession /\ [][NextSpeak]_vars

\* C19: a final transcript delivered while the bot speaks is dropped.  In every
\* step: a delivery while the bot speaks leaves the queue as it is; the
\* transcripts queued or gathered become more only by a delivery while the bot
\* is silent; and a user turn is formed only from the transcripts gathered.
C19_DroppedWhileSpeaking ==
    [][/\ (heard' = heard + 1 /\ bot_is_speaking) => transcript_q' = transcript_q
       /\ Len(transcript_q') + Len(transcription_buffer')
            > Len(transcript_q) + Len(transcription_buffer)
            => /\ heard' = heard + 1
               /\ ~bot_is_speaking
               /\ transcript_q' = Append(transcript_q, "hello")
               /\ transcription_buffer' = transcription_buffer
       /\ Len(turn_log') > Len(turn_log)
            => /\ transcription_buffer # <<>>
               /\ turn_log' = Append(turn_log, turn_log'[Len(turn_log')])
               /\ turn_log'[Len(turn_log')].user
                    = C11_Spaced("", C11_Words(transcription_buffer))]_vars

\* C19 witness: the one transcript delivered so far came while the bot was
\* speaking its greeting; nothing is queued or gathered and no turn was formed
C19_Witness ==
    /\ heard = 1
    /\ bot_is_speaking
    /\ transcript_q = <<>>
    /\ transcription_buffer = <<>>
    /\ turn_log = <<>>
    /\ llm_task["A"].state = "running"
    /\ llm_task["A"].pc = "loop"

(***************************************************************************)
(* One connection: the messages of the ASR                                 *)
(***************************************************************************)

\* latest time of a run with any messages of the ASR, in milliseconds
AsrHorizonMs == 1000

\* most messages the ASR delivers in such a run
MaxAsrMessages == 3

\* Results messages that are final by one key each
FinalMessages ==
    {AsrMessage("Results", 1, "one", {"is_final"}),
     AsrMessage("Results", 1, "two", {"speech_final"}),
     AsrMessage("Results", 1, "three", {"final"}),
     AsrMessage("Results", 1, "four", {"channel.is_final"}),
     AsrMessage("Results", 1, "five", {"alternative.final"})}

\* messages with nothing to queue: a partial result, a final result without
\* text, a final result without alternatives, a message of another type, and
\* text that is no JSON
OtherMessages ==
    {AsrMessage("Results", 1, "partial", {}),
     AsrMessage("Results", 1, "", {"is_final", "speech_final"}),
     AsrMessage("Results", 0, "none", {"is_final"}),
     AsrMessage("Metadata", 1, "meta", {"is_final"}),
     AsrMessage("not_json", 0, "text", {})}

NextAsr ==
    \/ Connect("A")
    \/ Accepted("A")
    \/ DeepgramOpens
    \/ \E data \in FinalMessages \cup OtherMessages : DeepgramMessage(data, MaxAsrMessages)
    \/ LlmWorkerStarts("A")
    \/ LlmWorkerLoop("A")
    \/ LlmWorkerHold("A")
    \/ LlmWorkerReplies("A", "reply")
    \/ TtsWorkerDequeues("A")
    \/ TtsWorkerSends("A", ReplyAudioBytes)
    \/ Advance(AsrHorizonMs)

SpecAsr == InitSession /\ [][NextAsr]_vars

\* C20: the adapter queues a transcript only for a Results message with a
\* non-empty transcript and a truthy finality flag.  In every step that puts
\* something on the queue, what is put is the transcript of such a message,
\* delivered in that step; and the transcript of a partial result, of a message
\* of another type or of a message that cannot be read is never on the queue.
C20_OnlyFinalResultsQueued ==
    [][/\ \A i \in DOMAIN transcript_q' :
            i > Len(transcript_q)
              => /\ heard' = heard + 1
                 /\ \E data \in FinalMessages \cup OtherMessages :
                      /\ transcript_q' = Append(transcript_q, data.transcript)
                      /\ data.type = "Results"
                      /\ data.transcript # ""
                      /\ data.flags # {}
       /\ \A i \in DOMAIN transcript_q' :
            transcript_q'[i] \notin {data.transcript : data \in OtherMessages}]_vars

\* C20 witness: of three messages delivered while the bot was silent, the two
\* that are final by a nested key are queued and the third, not final or
\* without text, is not
C20_Witness ==
    /\ heard = 3
    /\ transcript_q = <<"four", "five">>
    /\ transcription_buffer = <<>>
    /\ turn_log = <<>>
    /\ bot_speaking_until = -1

(***************************************************************************)
(* One connection: replies for which no audio comes                        *)
(***************************************************************************)

\* latest time of a run in which syntheses fail, in milliseconds
TtsHorizonMs == 1500

\* most final transcripts the ASR delivers in such a run
MaxTtsTranscripts == 2

NextTts ==
    \/ Connect("A")
    \/ Accepted("A")
    \/ DeepgramOpens
    \/ on_message("hello", MaxTtsTranscripts)
    \/ LlmWorkerStarts("A")
    \/ LlmWorkerLoop("A")
    \/ LlmWorkerHold("A")
    \/ \E o \in {"reply", "empty"} : LlmWorkerReplies("A", o)
    \/ TtsWorkerDequeues("A")
    \/ \E b \in {0, ReplyAudioBytes} : TtsWorkerSends("A", b)
    \/ Advance(TtsHorizonMs)

SpecTts == InitSession /\ [][NextTts]_vars

\* C21: a reply for which the synthesis yields no audio is passed over.  In
\* every step: a text of white space alone leaves the queue without a post to
\* the TTS service; a text is posted once, as it leaves the queue; and a step
\* in which the worker is done with a text and sends no audio leaves the
\* speaking window, the queue and the call log as they are and the worker
\* ready for the next text.
C21_NoAudioIsPassedOver ==
    [][\A s \in Sessions :
         /\ (Len(tts_q') < Len(tts_q) /\ Head(tts_q) \in {"", " "})
              => /\ tts_q' = Tail(tts_q)
                 /\ voice' = voice
                 /\ bot_speaking_until' = bot_speaking_until
                 /\ current_call_data' = current_call_data
                 /\ tts_task'[s].pc = "idle"
         /\ voice'.posts # voice.posts
              => /\ tts_q # <<>>
                 /\ Head(tts_q) \notin {"", " "}
                 /\ voice'.posts = Append(voice.posts, Head(tts_q))
                 /\ tts_q' = Tail(tts_q)
         /\ (tts_task[s].pc = "synth" /\ tts_task'[s].pc = "idle" /\ voice'.sent = voice.sent)
              => /\ bot_speaking_until' = bot_speaking_until
                 /\ voice'.posts = voice.posts
                 /\ tts_q' = tts_q
                 /\ current_call_data' = current_call_data]_vars

\* C21 witness: the synthesis of the greeting gave no audio and the first reply
\* was empty; both are in the call log, the second reply was synthesized and
\* sent, and the worker waits for the next text
C21_Witness ==
    /\ Len(current_call_data.ai_responses) = 3
    /\ current_call_data.ai_responses[1].content = Greeting
    /\ current_call_data.ai_responses[2].content = ""
    /\ current_call_data.ai_responses[3].content = Answer
    /\ voice.posts = <<Greeting, Answer>>
    /\ voice.sent = <<Answer>>
    /\ tts_q = <<>>
    /\ tts_task["A"].state = "running"
    /\ tts_task["A"].pc = "idle"

(***************************************************************************)
(* The call of a lead and the session that ends it without a session id    *)
(***************************************************************************)

\* the outbound call that leaves the initiated record, the sessions of the
\* call, and a store that answers
NextPromote ==
    \/ Tick
    \/ CallLead("L1", "s1")
    \/ \E c \in TheCallSessions : TrackSession(c[1], c[2], c[3])
    \/ LogCallMessage("user", "can i visit the site")
    \/ LogCallMessage("greeting", "text")
    \/ EndCallTrackingAnswered

SpecPromote == InitStore /\ [][NextPromote]_vars

\* the initiated records end_call_tracking looks for (websocket_api.py 258-269)
C22_Initiated ==
    {i \in DOMAIN calls :
        /\ calls[i].status = "initiated"
        /\ clock - calls[i].created_at < FiveMinutesS
        /\ IF Truthy(current_call_data.lead_id)
             THEN calls[i].lead_id = current_call_data.lead_id
             ELSE calls[i].phone_number = current_call_data.phone_number}

\* a tracked session with a conversation, a known phone and no session id ends
C22_EndsWithoutSession ==
    /\ current_call_data.start_time >= 0
    /\ current_call_data' = EmptyCallData
    /\ current_call_data.transcription # <<>> \/ current_call_data.ai_responses # <<>>
    /\ ~Truthy(current_call_data.call_session_id)
    /\ current_call_data.phone_number \notin {NoPhone, UnknownPhone}
    /\ dbConnected

LogCallFinds(h, phone_number, lead_id, call_data) ==
    LET session_id == Get(call_data, "call_session_id", NoneVal)
        existing   == IF Truthy(session_id) THEN ExistingBySession(calls, session_id) ELSE {}
        r          == LogCall(calls, leads, phone_number, lead_id, call_data)
        inside     == {x \in Handlers : log_calls[x].pc = "insert"}
    IN  /\ log_calls[h].pc = "out"
        /\ Len(calls) + Cardinality(inside) < MaxCalls
        /\ IF ~dbConnected \/ existing # {}
             THEN /\ calls' = r.calls
                  /\ leads' = r.leads
                  /\ log_calls' = [log_calls EXCEPT ![h] =
                                     [pc |-> "out", phone_number |-> phone_number, lead_id |-> lead_id,
                                      call_data |-> call_data, at |-> clock, success |-> r.success]]
             ELSE /\ UNCHANGED <<calls, leads>>
                  /\ log_calls' = [log_calls EXCEPT ![h] =
                                     [pc |-> "insert", phone_number |-> phone_number, lead_id |-> lead_id,
                                      call_data |-> call_data, at |-> clock, success |-> TRUE]]
        /\ lastLog' = Remember(lastLog, phone_number, lead_id, call_data)
        /\ UNCHANGED <<dbConnected, clock, current_call_data, lastLeadEvent, agent_config, asr, webhook>>
        /\ UNCHANGED <<iaVars, sessionVars>>

\* calls_api.py 166-197: the insert of a log_call that found no record, and
\* what follows it
LogCallInserts(h) ==
    LET c          == log_calls[h]
        session_id == Get(c.call_data, "call_session_id", NoneVal)
        rec        == CallRecord(c.phone_number, c.lead_id, c.call_data,
                                 IF Truthy(session_id) THEN session_id ELSE NoneVal, c.at)
        r          == LogCallInsert(calls, leads, c.phone_number, c.lead_id, c.call_data, rec)
    IN  /\ c.pc = "insert"
        /\ calls' = r.calls
        /\ leads' = r.leads
        /\ log_calls' = [log_calls EXCEPT ![h].pc = "out", ![h].success = r.success]
        /\ UNCHANGED <<dbConnected, clock, current_call_data, lastLog, lastLeadEvent, agent_config, asr, webhook>>
        /\ UNCHANGED <<iaVars, sessionVars>>

\* two handlers log calls of lead L1, with a session id or without one
NextRace ==
    \/ Tick
    \/ \E h \in Handlers, sid \in SessionIds \cup {NoneVal} :
         \E cd \in CallDataSamples(sid) : LogCallFinds(h, Phone(TRUE, "d1"), "L1", cd)
    \/ \E h \in Handlers : LogCallInserts(h)

SpecRace == InitStore /\ [][NextRace]_vars

\* C23: in every reachable state at most one record of the calls collection
\* carries a given session id, also when two log_call invocations for the same
\* new session id both pass the look-up before either inserts.
C23_OneRecordPerSession ==
    \A sid \in SessionIds :
        Cardinality({i \in DOMAIN calls : calls[i].call_session_id = sid}) <= 1

\* both handlers looked session s1 up before either inserted: the insert of
\* h1 went through, the insert of h2 was rejected, one record carries s1
C23_Witness ==
    /\ dbConnected
    /\ \A h \in Handlers :
          /\ log_calls[h].pc = "out"
          /\ Get(log_calls[h].call_data, "call_session_id", NoneVal) = "s1"
    /\ log_calls["h1"].success
    /\ ~log_calls["h2"].success
    /\ log_calls["h1"].call_data.status = "initiated"
    /\ log_calls["h2"].call_data.status = "completed"
    /\ Cardinality({i \in DOMAIN calls : calls[i].call_session_id = "s1"}) = 1
    /\ \E i \in DOMAIN calls : calls[i].call_session_id = "s1" /\ calls[i].status = "initiated"

(***************************************************************************)
(* The lead status rule after a write of log_call                          *)
(***************************************************************************)

\* C24: every log_call that writes a call record, by inserting it or by
\* updating the record found by its session id, applies the lead status rule
\* to the data of that call.
C24_LeadRuleAfterEveryWrite ==
    [][ \A i \in DOMAIN calls' :
          LET sid == calls'[i].call_session_id
          IN  (/\ i > Len(calls) \/ calls'[i] # calls[i]
               /\ sid \in SessionIds
               /\ lastLog'[sid] # NoLog
               /\ DOMAIN lastLog'[sid][1].call_data # {})
              => leads' = UpdateLeadStatusFromCall(leads, lastLog'[sid][1].phone_number,
                                                   lastLog'[sid][1].lead_id,
                                                   lastLog'[sid][1].call_data) ]_vars

(***************************************************************************)
(* The lead of a caller found interested                                   *)
(***************************************************************************)

\* calls_api.py 21-112: the lead status rule applied for a call; the event
\* remembered names the leads the rule finds and the interest analysis of the call
ApplyCallToLeadOf(phone_number, lead_id, call_data) ==
    /\ leads' = UpdateLeadStatusFromCall(leads, phone_number, lead_id, call_data)
    /\ lastLeadEvent' = <<[before |-> leads, source |-> "call", status |-> call_data.status,
                           for_leads |-> FindLead(phone_number, lead_id),
                           interest |-> Get(call_data, "interest_analysis", <<>>)]>>
    /\ UNCHANGED <<dbConnected, calls, clock, current_call_data, lastLog>>
    /\ UNCHANGED beyondStore

\* short calls, with no interest analysis or with a caller found interested
ConvertCallData ==
    {cd \in LeadCallData :
        /\ cd.duration \in {0, 3}
        /\ cd.interest_analysis \in {<<>>, <<InterestResult("interested", 85)>>}}

\* calls of the leads, by their id or by the phone of L1
NextConvert ==
    \E l \in LeadIds \cup {NoneVal} :
        \E cd \in ConvertCallData : ApplyCallToLeadOf(LeadPhone("L1"), l, cd)

SpecConvert == InitStore /\ [][NextConvert]_vars

C25_InterestedCall ==
    /\ lastLeadEvent # NoEvent
    /\ lastLeadEvent[1].source = "call"
    /\ dbConnected
    /\ lastLeadEvent[1].interest # <<>>
    /\ lastLeadEvent[1].interest[1].interest_status = "interested"
    /\ lastLeadEvent[1].interest[1].confidence > 70

ReplyHorizonMs == 1500

\* most transcripts the ASR delivers in such a run
MaxReplyTranscripts == 2

NextReply ==
    \/ Connect("A")
    \/ Accepted("A")
    \/ DeepgramOpens
    \/ on_message("hello", MaxReplyTranscripts)
    \/ LlmWorkerStarts("A")
    \/ LlmWorkerLoop("A")
    \/ LlmWorkerHold("A")
    \/ \E c \in GetResponseConditions : LlmWorkerReplies("A", c)
    \/ TtsWorkerDequeues("A")
    \/ \E b \in {0, ReplyAudioBytes} : TtsWorkerSends("A", b)
    \/ Advance(ReplyHorizonMs)

SpecReply == InitSession /\ [][NextReply]_vars

\* C26: the reply to a turn whose LLM call failed because the API rejected the
\* credentials differs from the reply to a turn whose LLM call failed otherwise.
C26_AuthReplyDiffers ==
    \A i, j \in DOMAIN turn_log :
        (turn_log[i].cause = "auth_rejected" /\ turn_log[j].cause = "api_failed")
            => turn_log[i].reply # turn_log[j].reply

\* the texts put on the TTS queue in this session, in the order of the puts:
\* each is logged as a response just before it is put (websocket_api.py 428-429,
\* 442-443, 449-450, 483-484, 503-504, 509-510, 518-521)
C27_Put == [i \in DOMAIN current_call_data.ai_responses |-> current_call_data.ai_responses[i].content]

\* a is b with some of its elements left out
RECURSIVE C27_Within(_, _)
C27_Within(a, b) ==
    IF a = <<>> THEN TRUE
    ELSE IF b = <<>> THEN FALSE
    ELSE IF Head(a) = Head(b) THEN C27_Within(Tail(a), Tail(b))
    ELSE C27_Within(a, Tail(b))

\* C27: within one session the replies are sent as audio in the order in which
\* their texts were put on the TTS queue: the queue holds the latest puts in
\* their order, the texts posted for synthesis are the earlier puts in their
\* order, the empty ones left out, and the texts sent are those posted, in the
\* same order, less the ones for which no audio came.
C27_SentInQueueOrder ==
    LET taken == Len(C27_Put) - Len(tts_q)
    IN  /\ taken >= 0
        /\ tts_q = SubSeq(C27_Put, taken + 1, Len(C27_Put))
        /\ voice.posts = SelectSeq(SubSeq(C27_Put, 1, taken), LAMBDA x : ~Skipped(x))
        /\ C27_Within(voice.sent, voice.posts)

\* the greeting and two different replies were put, posted and sent, in that order
C27_Witness ==
    /\ C27_Put = <<Greeting, KeyNotConfiguredReply, Answer>>
    /\ voice.sent = <<Greeting, KeyNotConfiguredReply, Answer>>
    /\ tts_q = <<>>

(***************************************************************************)
(* The agent configuration (agent_config.py)                               *)
(* An instance is kept as its config dict, the file (<<>> when there is    *)
(* none, else <<the dict it holds>>), the file's modification time and the *)
(* time the instance last loaded it, and whether the file can be written.  *)
(***************************************************************************)

\* most operations on the configuration in a checked run
MaxConfigOps == 4

\* the messages a caller of the setters passes
Messages == {"", "m1", "m2"}

\* agent_config.py 51-67: save_config(config), config = <<>> for None; the
\* outcomes as [ac, ok].  A write within the granularity of the file system's
\* clock leaves the modification time as it was.
save_config_unassigned(ac, config) ==
    IF ~ac.writable THEN {[ac |-> ac, ok |-> FALSE]}
    ELSE LET config_to_save == IF config # <<>> THEN config[1] ELSE ac.config
         IN  {[ac |-> [ac EXCEPT !.file = <<config_to_save>>, !.mtime = t], ok |-> TRUE]
                : t \in {ac.mtime, ac.mtime + 1}}

save_config(ac, config) ==
    IF ~ac.writable THEN {[ac |-> ac, ok |-> FALSE]}
    ELSE LET config_to_save == IF config # <<>> THEN config[1] ELSE ac.config
         IN  {[ac |-> [ac EXCEPT !.file = <<config_to_save>>,
                                 !.mtime = t,
                                 !.config = IF config # <<>> THEN config_to_save ELSE @],
               ok |-> TRUE] : t \in {ac.mtime, ac.mtime + 1}}

\* agent_config.py 69-76: update_config({key: message})
update_config(ac, key, message) == save_config([ac EXCEPT !.config[key] = message], <<>>)

\* agent_config.py 78-99: reload_config, which loads the file when it was
\* modified after the last load
reload_config(ac) ==
    IF ac.file # <<>> /\ ac.mtime > ac.last_modified
      THEN [ac EXCEPT !.config = load_config(ac.file[1]), !.last_modified = ac.mtime]
      ELSE ac

\* agent_config.py 101-114: get_greeting_message, get_exit_message and
\* get_system_prompt, by the key they read
get_message(ac, key) == reload_config(ac).config[key]

\* agent_config.py 146-153: set_greeting_message, set_exit_message and
\* set_system_prompt, by the key they write
SetMessage(key, message) ==
    /\ agent_config.ops < MaxConfigOps
    /\ \E o \in update_config(agent_config, key, message) :
          agent_config' = [o.ac EXCEPT !.ops = @ + 1,
                                       !.last = [op |-> "set", key |-> key, arg |-> message,
                                                 ok |-> o.ok, value |-> NoneVal]]
    /\ UNCHANGED <<storeVars, iaVars, sessionVars, log_calls, asr, webhook>>

\* agent_config.py 101-114: a getter is called
GetMessage(key) ==
    /\ agent_config.ops < MaxConfigOps
    /\ agent_config' = [reload_config(agent_config)
                          EXCEPT !.ops = @ + 1,
                                 !.last = [op |-> "get", key |-> key, arg |-> NoneVal,
                                           ok |-> TRUE, value |-> get_message(agent_config, key)]]
    /\ UNCHANGED <<storeVars, iaVars, sessionVars, log_calls, asr, webhook>>

\* agent_config.py 164-165: reset_to_defaults
ResetToDefaults ==
    /\ agent_config.ops < MaxConfigOps
    /\ \E o \in save_config(agent_config, <<default_config>>) :
          agent_config' = [o.ac EXCEPT !.ops = @ + 1,
                                       !.last = [op |-> "reset", key |-> NoneVal, arg |-> NoneVal,
                                                 ok |-> o.ok, value |-> NoneVal]]
    /\ UNCHANGED <<storeVars, iaVars, sessionVars, log_calls, asr, webhook>>

\* an instance made on any of the files, then used
InitConfig ==
    /\ InitStoreVars
    /\ InitInterestIdle
    /\ InitSessionVars
    /\ log_calls = [h \in Handlers |-> NoLogCall]
    /\ agent_config \in AgentConfigs
    /\ asr = NoAsr
    /\ webhook = NoWebhook

NextConfig ==
    \/ \E k \in ConfigKeys, m \in Messages : SetMessage(k, m)
    \/ \E k \in ConfigKeys : GetMessage(k)
    \/ ResetToDefaults

SpecConfig == InitConfig /\ [][NextConfig]_vars

\* C28: on an instance whose file can be written, a setter returns true and
\* the matching getter then returns the message it was given; reset_to_defaults
\* returns true and the three getters then return the defaults; and a getter
\* returns what the state it is called in holds and changes no getter's answer,
\* so "then" reaches every getter called before the next setter or reset.
C28_SetThenGet ==
    [][ (agent_config.writable /\ agent_config'.ops = agent_config.ops + 1) =>
          LET last == agent_config'.last
          IN  /\ last.op = "set" =>
                    /\ last.ok
                    /\ get_message(agent_config', last.key) = last.arg
              /\ last.op = "reset" =>
                    /\ last.ok
                    /\ \A k \in ConfigKeys : get_message(agent_config', k) = default_config[k]
              /\ last.op = "get" =>
                    /\ last.value = get_message(agent_config, last.key)
                    /\ \A k \in ConfigKeys :
                          get_message(agent_config', k) = get_message(agent_config, k) ]_vars

\* the greeting getter has returned a message that only a setter can have put
\* there, on an instance that started from a file with another greeting and
\* has loaded the file again since
C28_Witness ==
    /\ agent_config.writable
    /\ agent_config.last.op = "get"
    /\ agent_config.last.key = "greeting_message"
    /\ agent_config.last.value = "m1"
    /\ agent_config.last_modified > 0
    /\ agent_config.config.exit_message = "old exit"

(***************************************************************************)
(* One connection: when the speaking window is set                         *)
(***************************************************************************)

\* latest time of a run on the speaking window, in milliseconds
WindowHorizonMs == 1500

\* most transcripts the ASR delivers in such a run
MaxWindowTranscripts == 2

\* bytes of audio of a short reply: a tenth of a second
ShortAudioBytes == 1600

NextWindow ==
    \/ Connect("A")
    \/ Accepted("A")
    \/ DeepgramOpens
    \/ on_message("hello", MaxWindowTranscripts)
    \/ LlmWorkerStarts("A")
    \/ LlmWorkerLoop("A")
    \/ LlmWorkerHold("A")
    \/ LlmWorkerReplies("A", "reply")
    \/ TtsWorkerDequeues("A")
    \/ \E b \in {0, ShortAudioBytes, ReplyAudioBytes} : TtsWorkerSends("A", b)
    \/ Advance(WindowHorizonMs)

SpecWindow == InitSession /\ [][NextWindow]_vars

C30_HeldTranscriptsJoinTurn ==
    [][ (/\ Len(transcript_q') > Len(transcript_q)
         /\ llm_task["A"].pc = "hold"
         /\ now < llm_task["A"].first_at + LISTEN_HOLD_MS)
        => now < llm_task["A"].hold_until ]_vars


(***************************************************************************)
(* One connection: a long conversation                                     *)
(***************************************************************************)

\* latest time of a run on a long conversation, in milliseconds
HistoryHorizonMs == 4000

\* most transcripts the ASR delivers in such a run
MaxHistoryTranscripts == 6

\* qa_engine.py 202-206: how many entries of a history of n entries go into
\* the messages of the request: conversation_history[-4:]
RecentHistory(n) == IF n > 4 THEN 4 ELSE n

NextHistory ==
    \/ Connect("A")
    \/ Accepted("A")
    \/ DeepgramOpens
    \/ on_message("hello", MaxHistoryTranscripts)
    \/ LlmWorkerStarts("A")
    \/ LlmWorkerLoop("A")
    \/ LlmWorkerHold("A")
    \/ LlmWorkerReplies("A", "reply")
    \/ TtsWorkerDequeues("A")
    \/ TtsWorkerSends("A", 0)
    \/ Advance(HistoryHorizonMs)

SpecHistory == InitSession /\ [][NextHistory]_vars

\* C31: the running history of an LLM worker never has more than 8 entries,
\* and a request to the LLM carries at most 4 of them, however many turns the
\* session has had.
C31_HistoryBounded ==
    \A s \in Sessions :
        /\ llm_task[s].history <= 8
        /\ llm_task[s].pc = PcGenerating => RecentHistory(llm_task[s].history) <= 4

\* the sixth turn of a session is with the LLM: the history reached 8 entries
\* after the fourth turn, was cut to 6 after the fifth, and 4 of them are sent
C31_Witness ==
    /\ Len(turn_log) = 6
    /\ llm_task["A"].pc = PcGenerating
    /\ llm_task["A"].history = 6
    /\ RecentHistory(llm_task["A"].history) = 4


(***************************************************************************)
(* The ASR adapter in detail: WebSocketApps, the threads that run them,    *)
(* and the reconnection after a failure.  A thread is a call of            *)
(* run_forever; the callbacks of a connection run on its thread.           *)
(***************************************************************************)

\* websocket_api.py 594: time.sleep(5), in milliseconds
RECONNECT_DELAY_MS == 5000

\* most failures of ASR connections in a run
MaxAsrFailures == 2

\* how the library reports the end of a connection: with the error callback
\* followed by the close callback, or with the close callback alone
FailureKinds == {"error", "close"}

\* websocket_api.py 605, 617: a thread that has just entered run_forever of app
AsrThread(app) == [app |-> app, pc |-> "connecting", wake_at |-> 0, failed_at |-> -1]

\* websocket_api.py 607-617: start_fast_deepgram makes the first WebSocketApp,
\* binds dg_ws_client to it and starts its thread
Started_dg(a) ==
    [a EXCEPT !.apps = @ + 1, !.current = a.apps + 1,
              !.threads = Append(@, AsrThread(a.apps + 1))]

\* websocket_api.py 541-552: on_open on thread i
Opened(a, i) == [a EXCEPT !.threads[i].pc = "connected"]

\* websocket_api.py 583-594: the connection of thread i ends; its first
\* callback enters reconnect_deepgram and sleeps
Failed(a, i, kind) ==
    [a EXCEPT !.threads[i].pc = IF kind = "error" THEN "error_sleep" ELSE "close_sleep",
              !.threads[i].wake_at = now + RECONNECT_DELAY_MS,
              !.threads[i].failed_at = now,
              !.failures = @ + 1]

\* websocket_api.py 595-604: the sleep of thread i is over had no new
\* WebSocketApp been bound to dg_ws_client
ReassignedNot(a, i) ==
    [a EXCEPT !.threads[i].pc = IF @ = "error_sleep" THEN "error_start" ELSE "close_start"]

\* websocket_api.py 595-604: the sleep of thread i is over; a new WebSocketApp
\* is made and dg_ws_client bound to it
Reassigned(a, i) ==
    [a EXCEPT !.apps = @ + 1, !.current = a.apps + 1,
              !.threads[i].pc = IF @ = "error_sleep" THEN "error_start" ELSE "close_start"]

\* websocket_api.py 586-589, 605: thread i starts a thread on run_forever of
\* the app dg_ws_client refers to at that moment; after the error callback the
\* library calls the close callback, which sleeps in reconnect_deepgram again
ThreadStarted(a, i) ==
    LET after == IF a.threads[i].pc = "error_start"
                   THEN [a.threads[i] EXCEPT !.pc = "close_sleep",
                                             !.wake_at = now + RECONNECT_DELAY_MS]
                   ELSE [a.threads[i] EXCEPT !.pc = "done"]
    IN  [a EXCEPT !.threads = Append([@ EXCEPT ![i] = after], AsrThread(a.current))]

\* the threads of a whose connection is being made or is open
AsrActive(a) == {i \in DOMAIN a.threads : a.threads[i].pc \in {"connecting", "connected"}}

\* websocket_api.py 760: dg_ws_client.sock.connected: a thread runs the app
\* dg_ws_client refers to and its connection is open
CurrentConnected(a) ==
    \E i \in DOMAIN a.threads : a.threads[i].app = a.current /\ a.threads[i].pc = "connected"

\* the ASR connection as the endpoint sees it
DgStatus(a) ==
    IF a.current = 0 THEN "none"
    ELSE IF CurrentConnected(a) THEN "connected"
    ELSE IF \E i \in AsrActive(a) : a.threads[i].app = a.current THEN "connecting"
    ELSE "down"

\* a step of the adapter leaves a
AsrWrites(a) ==
    /\ asr' = a
    /\ dg_ws_client' = DgStatus(a)
    /\ UNCHANGED <<storeVars, iaVars, log_calls, agent_config, webhook, now, piopiy_ws,
                   transcript_q, tts_q, transcription_buffer, audio_buffer,
                   bot_speaking_until, ws, handler, llm_task, tts_task, ended, frames,
                   heard_speaking, asr_sent, heard, turn_log, last_text, voice>>

\* websocket_api.py 682-683, 607-617: the first connection is accepted with no
\* dg_ws_client yet
StartFastDeepgram ==
    /\ asr.current = 0
    /\ AsrWrites(Started_dg(asr))

\* websocket_api.py 541-552: a connection opens
AsrOpens(i) ==
    /\ i \in DOMAIN asr.threads
    /\ asr.threads[i].pc = "connecting"
    /\ AsrWrites(Opened(asr, i))

\* websocket_api.py 583-594: a connection fails or is closed
AsrFails(i, kind) ==
    /\ i \in AsrActive(asr)
    /\ asr.failures < MaxAsrFailures
    /\ AsrWrites(Failed(asr, i, kind))

\* websocket_api.py 594-604: reconnect_deepgram after its sleep
AsrReassigns(i) ==
    /\ i \in DOMAIN asr.threads
    /\ asr.threads[i].pc \in {"error_sleep", "close_sleep"}
    /\ now >= asr.threads[i].wake_at
    /\ AsrWrites(Reassigned(asr, i))

\* websocket_api.py 605: reconnect_deepgram starts the thread
AsrStartsThread(i) ==
    /\ i \in DOMAIN asr.threads
    /\ asr.threads[i].pc \in {"error_start", "close_start"}
    /\ AsrWrites(ThreadStarted(asr, i))

\* the times at which a sleeping thread of the adapter wakes
AsrDeadlines ==
    {asr.threads[i].wake_at :
        i \in {j \in DOMAIN asr.threads : asr.threads[j].pc \in {"error_sleep", "close_sleep"}}}

\* time passes, up to the next wake-up of a thread of the adapter
AsrAdvance ==
    /\ \E t \in AsrDeadlines :
         /\ t > now
         /\ \A u \in AsrDeadlines : u > now => t <= u
         /\ now' = t
         /\ clock' = t \div 1000
    /\ UNCHANGED <<dbConnected, calls, leads, current_call_data, lastLog, lastLeadEvent,
                   iaVars, restVars, piopiy_ws, transcript_q, tts_q, transcription_buffer,
                   audio_buffer, bot_speaking_until, dg_ws_client, ws, handler, llm_task,
                   tts_task, ended, frames, heard_speaking, asr_sent, heard, turn_log,
                   last_text, voice>>

NextReconnect ==
    \/ StartFastDeepgram
    \/ \E i \in 1..(2 * MaxAsrFailures + 1) : AsrOpens(i)
    \/ \E i \in 1..(2 * MaxAsrFailures + 1), kind \in FailureKinds : AsrFails(i, kind)
    \/ \E i \in 1..(2 * MaxAsrFailures + 1) : AsrReassigns(i)
    \/ \E i \in 1..(2 * MaxAsrFailures + 1) : AsrStartsThread(i)
    \/ AsrAdvance

SpecReconnect == InitSession /\ [][NextReconnect]_vars


\* the threads run, sleeps end, and the ASR service accepts a connection that
\* is being made; failures are not required to happen
SpecReconnectFair ==
    /\ SpecReconnect
    /\ WF_vars(\E i \in 1..(2 * MaxAsrFailures + 1) : AsrOpens(i))
    /\ WF_vars(\E i \in 1..(2 * MaxAsrFailures + 1) : AsrReassigns(i))
    /\ WF_vars(\E i \in 1..(2 * MaxAsrFailures + 1) : AsrStartsThread(i))
    /\ WF_vars(AsrAdvance)

\* C32: after a connection of the ASR adapter has failed or closed, a new
\* connection is made no earlier than RECONNECT_DELAY_MS after the failure and
\* dg_ws_client is bound to it; the thread started next runs the connection
\* dg_ws_client refers to; and an adapter that is not connected becomes
\* connected again.
C32_ReconnectsAfterBackoff ==
    /\ [][ /\ (asr.current # 0 /\ asr' # asr /\ asr'.apps # asr.apps) =>
                \E i \in DOMAIN asr.threads :
                    /\ asr.threads[i].pc \in {"error_sleep", "close_sleep"}
                    /\ asr'.threads[i].pc \in {"error_start", "close_start"}
                    /\ now >= asr.threads[i].failed_at + RECONNECT_DELAY_MS
                    /\ asr'.apps = asr.apps + 1
                    /\ asr'.current = asr'.apps
           /\ (\E i \in DOMAIN asr.threads :
                    /\ asr.threads[i].pc \in {"error_sleep", "close_sleep"}
                    /\ asr'.threads[i].pc \in {"error_start", "close_start"})
                => asr'.current = asr.apps + 1
           /\ Len(asr'.threads) > Len(asr.threads) =>
                /\ Len(asr'.threads) = Len(asr.threads) + 1
                /\ asr'.threads[Len(asr'.threads)] = AsrThread(asr'.current) ]_vars
    /\ (asr.current # 0 /\ ~CurrentConnected(asr)) ~> CurrentConnected(asr)

\* the first connection was closed at some time; dg_ws_client refers to a
\* later connection, which is open, 5 s or more after the failure
C32_Witness ==
    /\ asr.current > 1
    /\ CurrentConnected(asr)
    /\ dg_ws_client = "connected"
    /\ asr.threads[1].pc = "done"
    /\ asr.threads[1].failed_at >= 0
    /\ now >= asr.threads[1].failed_at + RECONNECT_DELAY_MS

\* C37: at most one connection made by the ASR adapter is being made or open
\* at any time.
C37_OneActiveConnection == Cardinality(AsrActive(asr)) <= 1


(***************************************************************************)
(* One connection: audio while the ASR connection is down                  *)
(***************************************************************************)

\* C33: between binary frames the audio buffer holds less than
\* AUDIO_BUFFER_SIZE bytes; a frame handled while the bot is silent and the ASR
\* connection is not open sends nothing, and when it completes a chunk, the
\* chunk and the rest of the buffer are dropped.
C33_OutageAudioDropped ==
    /\ [](Len(audio_buffer) < UnitsOf(AUDIO_BUFFER_SIZE))
    /\ [][ (frames' = frames + 1 /\ ~bot_is_speaking /\ dg_ws_client # "connected") =>
              /\ asr_sent' = asr_sent
              /\ \/ audio_buffer' = <<>>
                 \/ /\ audio_buffer = <<>>
                    /\ Len(audio_buffer') < UnitsOf(AUDIO_BUFFER_SIZE) ]_vars

\* the only frame so far, longer than a chunk, came while the bot was silent;
\* nothing of it was sent and nothing of it is in the buffer
C33_Witness ==
    /\ handler["A"] = "receiving"
    /\ frames = 1
    /\ heard_speaking = {}
    /\ asr_sent = {}
    /\ audio_buffer = <<>>
    /\ dg_ws_client # "connected"


(***************************************************************************)
(* Interest classifier: short conversations                                *)
(***************************************************************************)

\* C34: for a transcript of fewer than 2 user messages the interest
\* classifier returns neutral with confidence 0.5, with or without an LLM.
C34_ShortIsNeutral ==
    (iaResult # <<>> /\ Len(iaTranscription) < 2) => iaResult[1] = TooShortResult


(***************************************************************************)
(* One connection: the speaking window over two replies                    *)
(***************************************************************************)

\* C35: audio sent while the bot is speaking never moves the end of the
\* speaking window to an earlier time.
C35_WindowNeverMovesBack ==
    [][ (Len(voice'.sent) > Len(voice.sent) /\ bot_is_speaking) =>
            bot_speaking_until' >= bot_speaking_until ]_vars


(***************************************************************************)
(* One connection after another                                            *)
(***************************************************************************)

\* latest time of a run of two sessions in a row, in milliseconds
FollowHorizonMs == 1500

\* most transcripts the ASR delivers in such a run
MaxFollowTranscripts == 1

\* websocket_api.py 636-641: websocket_endpoint is called for the second
\* connection once the handler of the first has returned
ConnectAfter(s, before) ==
    /\ handler[before] = "returned"
    /\ Connect(s)

NextFollow ==
    \/ Connect("A")
    \/ ConnectAfter("B", "A")
    \/ \E s \in Sessions : Accepted(s)
    \/ \E s \in Sessions : RemoteDisconnect(s)
    \/ \E s \in Sessions : ReceiveDisconnect(s)
    \/ \E s \in Sessions : Return(s)
    \/ \E s \in Sessions : LlmWorkerStarts(s)
    \/ \E s \in Sessions : LlmWorkerLoop(s)
    \/ \E s \in Sessions : LlmWorkerHold(s)
    \/ \E s \in Sessions : LlmWorkerReplies(s, "reply")
    \/ \E s \in Sessions : TtsWorkerDequeues(s)
    \/ \E s \in Sessions : TtsWorkerSends(s, ReplyAudioBytes)
    \/ \E s \in Sessions : TtsCancelled(s)
    \/ \E s \in Sessions : LlmCancelled(s)
    \/ \E s \in Sessions : LlmUnwound(s)
    \/ on_message("hello", MaxFollowTranscripts)
    \/ DeepgramOpens
    \/ Advance(FollowHorizonMs)

SpecFollow == InitSession /\ [][NextFollow]_vars

\* C36: when a session starts after the one before it has ended, the
\* transcript queue and the TTS queue are empty, so that its workers speak and
\* answer only what was queued during the session itself.
C36_QueuesEmptyAtStart ==
    [][ (handler["A"] = "returned" /\ handler["B"] = "none" /\ handler'["B"] # "none") =>
            (transcript_q = <<>> /\ tts_q = <<>>) ]_vars


(***************************************************************************)
(* One connection that stays open: every transcript reaches a turn         *)
(***************************************************************************)

\* latest time of a run on a connection that stays open, in milliseconds
DeferHorizonMs == 8000

\* latest time at which the ASR delivers a transcript in such a run
DeferArrivalMs == 1500

\* most transcripts the ASR delivers in such a run
MaxDeferTranscripts == 2

\* websocket_api.py 554-581: on_message with a final transcript, early in the run
HeardEarly(transcript) ==
    /\ now <= DeferArrivalMs
    /\ on_message(transcript, MaxDeferTranscripts)

NextDefer ==
    \/ Connect("A")
    \/ Accepted("A")
    \/ DeepgramOpens
    \/ \E t \in {"hello", "there"} : HeardEarly(t)
    \/ LlmWorkerStarts("A")
    \/ LlmWorkerLoop("A")
    \/ LlmWorkerHold("A")
    \/ LlmWorkerReplies("A", "reply")
    \/ TtsWorkerDequeues("A")
    \/ TtsWorkerSends("A", ReplyAudioBytes)
    \/ Advance(DeferHorizonMs)

\* the event loop runs every task that can run, the Response Generator and the
\* TTS service answer, and time passes
SpecDefer ==
    /\ InitSession /\ [][NextDefer]_vars
    /\ WF_vars(LlmWorkerStarts("A"))
    /\ WF_vars(LlmWorkerLoop("A"))
    /\ WF_vars(LlmWorkerHold("A"))
    /\ WF_vars(LlmWorkerReplies("A", "reply"))
    /\ WF_vars(TtsWorkerDequeues("A"))
    /\ WF_vars(TtsWorkerSends("A", ReplyAudioBytes))
    /\ WF_vars(Advance(DeferHorizonMs))

\* the transcripts that are in no turn yet, oldest first
C38_Waiting == transcription_buffer \o transcript_q

\* C38: on a connection that stays open a transcript is never lost, repeated
\* or overtaken: what waits for a turn changes only by a transcript the ASR
\* delivers, at its end, or by a turn that takes the fragments gathered from its front, their
\* words joined in order, and earlier turns keep their text; and whatever
\* waits, deferred while the bot speaks or not, is in a turn in the end.
C38_EveryTranscriptInOneTurn ==
    /\ [][ /\ Len(turn_log') = Len(turn_log) =>
                \/ C38_Waiting' = C38_Waiting
                \/ /\ heard' = heard + 1
                   /\ \E t \in {"hello", "there"} : C38_Waiting' = Append(C38_Waiting, t)
           /\ Len(turn_log') > Len(turn_log) =>
                /\ Len(turn_log') = Len(turn_log) + 1
                /\ \E k \in 1..Len(C38_Waiting) :
                      /\ k >= Len(transcription_buffer)
                      /\ turn_log'[Len(turn_log')].user =
                             Join(SubSeq(C38_Waiting, 1, k))
                      /\ C38_Waiting' = SubSeq(C38_Waiting, k + 1, Len(C38_Waiting))
           /\ \A i \in DOMAIN turn_log : turn_log'[i].user = turn_log[i].user ]_vars
    /\ (C38_Waiting # <<>>) ~> (C38_Waiting = <<>>)

\* a first transcript has become a turn and was answered; the next one was
\* queued before the audio of the reply went out and waits while the bot speaks
C38_Witness ==
    /\ Len(turn_log) = 1
    /\ turn_log[1].reply = <<Answer>>
    /\ Len(voice.sent) = 2
    /\ bot_is_speaking
    /\ transcript_q # <<>>
    /\ llm_task["A"].pc = "loop"


(***************************************************************************)
(* From the interest analysis of a call to the status of its lead          *)
(***************************************************************************)

\* websocket_api.py 231-238: the analysis end_call_tracking uses when
\* analyze_conversation_interest raises
AnalysisFailedResult == InterestResult("neutral", 50)

\* qa_engine.py 282-333, 404-432: the result is the LLM's JSON, parsed: client
\* and key are there, the conversation is long enough, the call returned, and
\* the reply is JSON with the four keys, a number and a string
ParsedFromJson(transcription, llm) ==
    /\ llm.client /\ llm.key /\ Len(transcription) >= 2 /\ ~llm.raises
    /\ llm.response.json /\ RequiredKeys \subseteq llm.response.keys
    /\ llm.response.numeric /\ llm.response.textual

\* websocket_api.py 223-239: analyze_conversation_interest raises inside
\* end_call_tracking
AnalysisRaises ==
    /\ iaResult = <<>>
    /\ iaResult' = <<AnalysisFailedResult>>
    /\ iaLLM' = [iaLLM EXCEPT !.raises = TRUE]
    /\ UNCHANGED iaTranscription
    /\ UNCHANGED beyondInterest

\* websocket_api.py 241-259: the data of the analysed call as end_call_tracking
\* hands it to update_lead_status_from_call
AnalysedCallData(duration) ==
    [status |-> "completed", duration |-> duration, transcription |-> iaTranscription,
     interest_analysis |-> iaResult]

\* websocket_api.py 223-259: the analysed call, of lead l, ends
AnalysedCallEnds(l, duration) ==
    /\ iaResult # <<>>
    /\ iaTranscription # <<>>
    /\ leads' = UpdateLeadStatusFromCall(leads, NoPhone, l, AnalysedCallData(duration))
    /\ lastLeadEvent' = <<[before |-> leads, source |-> "call", status |-> "completed",
                           for_leads |-> FindLead(NoPhone, l),
                           interest |-> iaResult]>>
    /\ UNCHANGED <<dbConnected, calls, clock, current_call_data, lastLog>>
    /\ UNCHANGED beyondStore

\* earlier calls of lead L1 without an analysis, then the analysis of a call
\* and its end
NextFallback ==
    \/ \E cd \in {c \in ConvertCallData : c.interest_analysis = <<>>} :
          iaResult = <<>> /\ ApplyCallToLeadOf(NoPhone, "L1", cd)
    \/ Analyze
    \/ AnalysisRaises
    \/ \E d \in {3, 20} : AnalysedCallEnds("L1", d)

SpecFallback == InitInterest /\ [][NextFallback]_vars

\* C39: an analysis that is not the parsed JSON of the LLM (keyword heuristic,
\* fallback parser, too-short result, analysis-failed default) has a
\* confidence of at most 0.7, and the end of the analysed call raises a lead to
\* converted only with an analysis that is the parsed JSON.
C39_FallbackNeverConverts ==
    /\ []((iaResult # <<>> /\ ~ParsedFromJson(iaTranscription, iaLLM)) =>
              iaResult[1].confidence <= 70)
    /\ [][ (/\ lastLeadEvent' # lastLeadEvent
            /\ lastLeadEvent'[1].interest # <<>>
            /\ \E l \in LeadIds : leads[l].status # "converted" /\ leads'[l].status = "converted")
           => /\ ParsedFromJson(iaTranscription, iaLLM)
              /\ iaResult = <<ParseInterestAnalysisResponse(iaLLM.response)>>
              /\ iaResult[1].confidence > 70 ]_vars

\* without an LLM the keyword heuristic found the caller interested, 0.7; the
\* call of a lead at contacted ended with this analysis and the lead is still
\* at contacted
C39_Witness ==
    /\ dbConnected
    /\ ~iaLLM.client
    /\ iaResult = <<InterestResult("interested", 70)>>
    /\ lastLeadEvent # NoEvent
    /\ lastLeadEvent[1].interest = iaResult
    /\ lastLeadEvent[1].before["L1"].status = "contacted"
    /\ leads["L1"].status = "contacted"


(***************************************************************************)
(* The webhook service: the pending hangup                                 *)
(***************************************************************************)

\* most requests the webhook service answers in a run
MaxWebhookRequests == 5

\* webhook_api.py 271-302, webhook.py 280-311: POST /hangup-call sets the flag
\* and answers success
hangup_call(wh) ==
    [wh EXCEPT !.pending_hangup = TRUE, !.answers = Append(@, "hangup_requested")]

\* webhook_api.py 127-168, webhook.py 118-160: the inbound-call webhook with
\* the flag as the handler read it: the hangup answer and the flag cleared, or
\* the stream action
inbound_call(wh, pending) ==
    IF pending
      THEN [wh EXCEPT !.pending_hangup = FALSE, !.answers = Append(@, "hangup")]
      ELSE [wh EXCEPT !.answers = Append(@, "stream")]

\* a step of the webhook service leaves wh
WebhookWrites(wh) ==
    /\ webhook' = wh
    /\ UNCHANGED <<storeVars, iaVars, sessionVars, log_calls, agent_config, asr>>

\* the requests answered and those a handler is working on
WebhookRequests == Len(webhook.answers)
                   + Cardinality({h \in Handlers : webhook.inbound[h] # "idle"})

\* webhook_api.py 271-302: a hangup request is handled
HangupCall ==
    /\ WebhookRequests < MaxWebhookRequests
    /\ WebhookWrites(hangup_call(webhook))

\* webhook_api.py 127-168: an inbound call is handled by the coroutine of the
\* router, which reads and clears the flag without a suspension in between
InboundCall ==
    /\ WebhookRequests < MaxWebhookRequests
    /\ \A h \in Handlers : webhook.inbound[h] = "idle"
    /\ WebhookWrites(inbound_call(webhook, webhook.pending_hangup))

\* webhook.py 118-127: a thread of the Flask service takes an inbound call and
\* reads the flag; with the flag clear it goes on to the stream action
InboundCallChecks(h) ==
    /\ WebhookRequests < MaxWebhookRequests
    /\ webhook.inbound[h] = "idle"
    /\ IF webhook.pending_hangup
         THEN WebhookWrites([webhook EXCEPT !.inbound[h] = "saw_pending"])
         ELSE WebhookWrites(inbound_call(webhook, FALSE))

\* webhook.py 128-130: the thread that read the flag as set clears it and
\* answers with the hangup
InboundCallResets(h) ==
    /\ webhook.inbound[h] = "saw_pending"
    /\ WebhookWrites([inbound_call(webhook, TRUE) EXCEPT !.inbound[h] = "idle"])

\* the service of webhook.py: threads handle the requests
NextHangup ==
    \/ HangupCall
    \/ \E h \in Handlers : InboundCallChecks(h)
    \/ \E h \in Handlers : InboundCallResets(h)

SpecHangup == InitSession /\ [][NextHangup]_vars

\* the service of routers/webhook_api.py: one event loop handles the requests
NextHangupLoop ==
    \/ HangupCall
    \/ InboundCall

SpecHangupLoop == InitSession /\ [][NextHangupLoop]_vars

\* C40: an inbound call is answered with the hangup exactly when a hangup was
\* requested since the inbound call before it: no hangup answer comes without
\* a hangup request since the start or since the last hangup answer, however
\* many requests there were, and an inbound call right after a request is not
\* answered with the stream action.
C40_OneHangupPerRequest ==
    LET a == webhook.answers
    IN  /\ \A j \in DOMAIN a :
              a[j] = "hangup" =>
                  \E k \in 1..(j - 1) :
                      /\ a[k] = "hangup_requested"
                      /\ \A i \in (k + 1)..(j - 1) : a[i] # "hangup"
        /\ \A j \in DOMAIN a :
              (a[j] = "stream" /\ j > 1) => a[j - 1] # "hangup_requested"

============================================================================
